---- MODULE Spec2Model ----
(***************************************************************************)
(* Static-file HTTP server (select loop + thread pool).                    *)
(*                                                                         *)
(* The model follows the code that is compiled into the binary:            *)
(*   server/mod.rs                HttpServer::run and its three phases     *)
(*   server/handlers.rs           handle_readable_in_pool,                 *)
(*                                handle_writable_in_pool, the parser      *)
(*   server/connection_manager.rs the descriptor -> Connection index       *)
(*   server/connection.rs         the Connection record                    *)
(*                                                                         *)
(* Units.  A request is a sequence of bytes (one-character strings, plus   *)
(* the three non-ASCII bytes "C3", "A9", "FF").  A response header buffer  *)
(* is a sequence of units (the status line; the header lines with the      *)
(* blank line; for an error, the body): a socket write accepts whole units.*)
(* A file body is a sequence of bytes, the byte at offset i being i.       *)
(* The document root does not change while the server runs.                *)
(***************************************************************************)
EXTENDS Integers, Sequences, FiniteSets, TLC

\* ------------------------------------------------------------ bounds
\* descriptor numbers the operating system hands out for accepted sockets
NumFds == 3
\* admissions over the whole run (total_connections is unbounded in the code)
MaxTotal == 2
\* capacity of request_buffer (8192 in the code), in bytes
BufCap == 9
\* size of the stack buffer of the SendFile arm (65536 in the code), in bytes
ReadBufLen == 2
\* tasks the pool's queue holds at once (unbounded in the code)
MaxQueue == 2

\* ------------------------------------------------------------ configuration
\* ServerConfig of the runs that are modelled: --max-file-size (in bytes),
\* --threads, and the values --max-connections takes
max_file_size == 3
threads == 2
MaxConnectionsChoices == {1, 2}

Fds == 1..NumFds

Min(a, b) == IF a < b THEN a ELSE b

\* ------------------------------------------------------------ stages
Recv == "Recv"
Parse == "Parse"
SendHeaders == "SendHeaders"
SendFile == "SendFile"
Close == "Close"

ConnectionStage == {Recv, Parse, SendHeaders, SendFile, Close}

\* position of a stage in the declaration order of the enum
StageRank(s) ==
  CASE s = Recv -> 0
    [] s = Parse -> 1
    [] s = SendHeaders -> 2
    [] s = SendFile -> 3
    [] s = Close -> 4

\* ------------------------------------------------------------ HTTP status
HttpOk == "Ok"
BadRequest == "BadRequest"
Forbidden == "Forbidden"
NotFound == "NotFound"
MethodNotAllowed == "MethodNotAllowed"
PayloadTooLarge == "PayloadTooLarge"
InternalServerError == "InternalServerError"

code(status) ==
  CASE status = HttpOk -> 200
    [] status = BadRequest -> 400
    [] status = Forbidden -> 403
    [] status = NotFound -> 404
    [] status = MethodNotAllowed -> 405
    [] status = PayloadTooLarge -> 413
    [] status = InternalServerError -> 500

text(status) ==
  CASE status = HttpOk -> "OK"
    [] status = BadRequest -> "Bad Request"
    [] status = Forbidden -> "Forbidden"
    [] status = NotFound -> "Not Found"
    [] status = MethodNotAllowed -> "Method Not Allowed"
    [] status = PayloadTooLarge -> "Payload Too Large"
    [] status = InternalServerError -> "Internal Server Error"

as_response_line(status) ==
  "HTTP/1.1 " \o ToString(code(status)) \o " " \o text(status) \o "\r\n"

\* ------------------------------------------------------------ text
\* String::from_utf8_lossy: bytes to characters.  A character is [c, w]: its
\* text and its width in bytes.  C3 A9 is the two-byte character e-acute; a
\* byte that starts no valid sequence becomes U+FFFD, three bytes wide.
NonAscii == {"C3", "A9", "FF"}

RECURSIVE from_utf8_lossy(_)
from_utf8_lossy(bytes) ==
  IF bytes = <<>> THEN <<>>
  ELSE IF bytes[1] = "C3" /\ Len(bytes) >= 2 /\ bytes[2] = "A9"
       THEN <<[c |-> "\\u{e9}", w |-> 2]>> \o from_utf8_lossy(SubSeq(bytes, 3, Len(bytes)))
  ELSE IF bytes[1] \in NonAscii
       THEN <<[c |-> "\\u{fffd}", w |-> 3]>> \o from_utf8_lossy(Tail(bytes))
  ELSE <<[c |-> bytes[1], w |-> 1]>> \o from_utf8_lossy(Tail(bytes))

\* the text of a sequence of characters
RECURSIVE Str(_)
Str(chars) == IF chars = <<>> THEN "" ELSE chars[1].c \o Str(Tail(chars))

IsWhitespace(ch) == ch.c \in {" ", "\t", "\r", "\n"}

\* str::lines()[0]: the characters before the first "\n", without one
\* trailing "\r"; lines() is empty exactly for the empty string.
FirstNewline(chars) ==
  IF \E i \in 1..Len(chars) : chars[i].c = "\n"
  THEN CHOOSE i \in 1..Len(chars) :
         chars[i].c = "\n" /\ \A j \in 1..(i - 1) : chars[j].c # "\n"
  ELSE Len(chars) + 1

first_line_of(chars) ==
  LET raw == SubSeq(chars, 1, FirstNewline(chars) - 1)
  IN IF raw # <<>> /\ raw[Len(raw)].c = "\r" THEN SubSeq(raw, 1, Len(raw) - 1) ELSE raw

\* str::split_whitespace: the maximal runs of non-whitespace characters
RECURSIVE split_whitespace(_)
split_whitespace(chars) ==
  IF chars = <<>> THEN <<>>
  ELSE IF IsWhitespace(chars[1]) THEN split_whitespace(Tail(chars))
  ELSE LET stop == IF \E i \in 1..Len(chars) : IsWhitespace(chars[i])
                   THEN CHOOSE i \in 1..Len(chars) :
                          IsWhitespace(chars[i]) /\ \A j \in 1..(i - 1) : ~IsWhitespace(chars[j])
                   ELSE Len(chars) + 1
       IN <<SubSeq(chars, 1, stop - 1)>> \o split_whitespace(SubSeq(chars, stop, Len(chars)))

\* path.contains("..")
contains_dotdot(path) ==
  \E i \in 1..(Len(path) - 1) : path[i].c = "." /\ path[i + 1].c = "."

\* &path[1..] slices at BYTE 1: it panics unless byte 1 is a character boundary
slice_from_1_panics(path) == path[1].w # 1

\* ------------------------------------------------------------ file system
doc_root == "./static"

\* PathBuf::join: an absolute argument replaces the base
join(base, rel) ==
  IF rel # <<>> /\ rel[1].c = "/" THEN Str(rel) ELSE base \o "/" \o Str(rel)

FileBody(n) == [i \in 1..n |-> i]

Missing == [exists |-> FALSE, is_file |-> FALSE, meta_ok |-> FALSE, open_ok |-> FALSE, body |-> <<>>]
Dir == [exists |-> TRUE, is_file |-> FALSE, meta_ok |-> TRUE, open_ok |-> FALSE, body |-> <<>>]
RegularFile(n) == [exists |-> TRUE, is_file |-> TRUE, meta_ok |-> TRUE, open_ok |-> TRUE, body |-> FileBody(n)]

\* the document root of the run: a file of exactly max_file_size bytes, one
\* byte larger, an empty one, an unreadable one, one that is removed between
\* is_file() and metadata(), and the root directory itself
fs(path) ==
  CASE path = "./static/a" -> RegularFile(max_file_size)
    [] path = "./static/a.txt" -> RegularFile(max_file_size)
    [] path = "./static/A.HTML" -> RegularFile(1)
    [] path = "./static/index.html" -> RegularFile(1)
    [] path = "./static/e" -> RegularFile(0)
    [] path = "./static/b" -> RegularFile(max_file_size + 1)
    [] path = "./static/p" -> [RegularFile(1) EXCEPT !.open_ok = FALSE]
    [] path = "./static/m" -> [RegularFile(1) EXCEPT !.meta_ok = FALSE, !.open_ok = FALSE]
    [] path = "./static/a.." -> RegularFile(1)
    [] path = "./static/.." -> Dir
    [] path = "./static/" -> Dir
    [] path = "./static/d" -> Dir
    [] OTHER -> Missing

\* ------------------------------------------------------------ parser
\* Path::extension of the joined path, lower-cased: the text after the last
\* "." of the last component, "" when there is none or the only "." leads it
LastIndexOf(chars, c) ==
  IF \E i \in 1..Len(chars) : chars[i].c = c
  THEN CHOOSE i \in 1..Len(chars) :
         chars[i].c = c /\ \A j \in (i + 1)..Len(chars) : chars[j].c # c
  ELSE 0

to_lowercase(c) ==
  CASE c = "A" -> "a" [] c = "H" -> "h" [] c = "T" -> "t"
    [] c = "M" -> "m" [] c = "L" -> "l" [] OTHER -> c

RECURSIVE LowerStr(_)
LowerStr(chars) ==
  IF chars = <<>> THEN "" ELSE to_lowercase(chars[1].c) \o LowerStr(Tail(chars))

extension(rel) ==
  LET name == SubSeq(rel, LastIndexOf(rel, "/") + 1, Len(rel))
      dot == LastIndexOf(name, ".")
  IN IF dot <= 1 THEN "" ELSE LowerStr(SubSeq(name, dot + 1, Len(name)))

get_content_type(rel) ==
  LET ext == extension(rel)
  IN CASE ext = "html" -> "text/html"
       [] ext = "css" -> "text/css"
       [] ext = "js" -> "application/javascript"
       [] ext = "png" -> "image/png"
       [] ext = "jpg" -> "image/jpeg"
       [] ext = "jpeg" -> "image/jpeg"
       [] ext = "gif" -> "image/gif"
       [] ext = "svg" -> "image/svg+xml"
       [] ext = "ico" -> "image/x-icon"
       [] ext = "json" -> "application/json"
       [] ext = "txt" -> "text/plain"
       [] OTHER -> "application/octet-stream"

\* the fallback body for every status
error_body_generic(status) == "<html><body><h1>Error</h1></body></html>"

error_body(status) ==
  CASE status = NotFound -> "<html><body><h1>404 Not Found</h1></body></html>"
    [] status = Forbidden -> "<html><body><h1>403 Forbidden</h1></body></html>"
    [] status = BadRequest -> "<html><body><h1>400 Bad Request</h1></body></html>"
    [] status = PayloadTooLarge -> "<html><body><h1>413 Payload Too Large</h1></body></html>"
    [] status = InternalServerError ->
         "<html><body><h1>500 Internal Server Error</h1></body></html>"
    [] OTHER -> "<html><body><h1>Error</h1></body></html>"

\* an error buffer that announces 46 bytes whatever the body
format_error_response_fixed_length(status) ==
  << as_response_line(status),
     "Content-Type: text/html\r\nContent-Length: 46\r\nConnection: close\r\n\r\n",
     error_body(status) >>

\* the error buffer, in three units: the status line, the header lines with
\* the blank line, the body
format_error_response(status) ==
  << as_response_line(status),
     "Content-Type: text/html\r\nContent-Length: "
       \o ToString(Len(error_body(status))) \o "\r\nConnection: close\r\n\r\n",
     error_body(status) >>

\* the 200 buffer, in two units: the status line, the header lines with the
\* blank line
ok_headers(content_type, file_size) ==
  << as_response_line(HttpOk),
     "Content-Type: " \o content_type \o "\r\nContent-Length: "
       \o ToString(file_size) \o "\r\nConnection: close\r\n\r\n" >>

NoFile == [open |-> FALSE, path |-> "", pos |-> 0]
OpenFile(path) == [open |-> TRUE, path |-> path, pos |-> 0]

\* a parser that opens the file for a HEAD as well
file_for_any_method(is_head, file_path) == OpenFile(file_path)

\* the file the Ok arm returns: None for a HEAD, the opened file otherwise
file_for(is_head, file_path) == IF is_head THEN NoFile ELSE OpenFile(file_path)

\* a test of the method that takes head for HEAD
is_head_method_any_case(method) == method \in {"HEAD", "head"}

\* method == "HEAD"
is_head_method(method) == method = "HEAD"

\* a size test that turns away a file of exactly max_file_size bytes
too_large_inclusive(file_size) == file_size >= max_file_size

\* file_size > max_file_size
too_large(file_size) == file_size > max_file_size

ParseErr(status, ops) ==
  [tag |-> "Err", status |-> status, headers |-> format_error_response(status),
   file |-> NoFile, file_size |-> 0, is_head |-> FALSE, fs_ops |-> ops]

\* parse_http_request, on the decoded request.  tag is "Ok" (the Ok arm),
\* "Err" (an error buffer) or "Panic" (the slice at byte 1 panics); fs_ops
\* are the file-system calls made on the way.
parse_http_request(request_str) ==
  LET first_line == split_whitespace(first_line_of(request_str))
  IN IF request_str = <<>> THEN ParseErr(BadRequest, <<>>)
     ELSE IF Len(first_line) < 2 THEN ParseErr(BadRequest, <<>>)
     ELSE
       LET method == Str(first_line[1])
           token == first_line[2]
       IN IF contains_dotdot(token) THEN ParseErr(Forbidden, <<>>)
          ELSE
            LET path == IF Str(token) = "/" THEN from_utf8_lossy(<<"/", "i", "n", "d", "e", "x", ".", "h", "t", "m", "l">>)
                        ELSE token
            IN IF slice_from_1_panics(path)
               THEN [tag |-> "Panic", status |-> InternalServerError, headers |-> <<>>,
                     file |-> NoFile, file_size |-> 0, is_head |-> FALSE, fs_ops |-> <<>>]
               ELSE
                 LET rel == Tail(path)
                     file_path == join(doc_root, rel)
                     entry == fs(file_path)
                     file_size == Len(entry.body)
                     is_head == is_head_method(method)
                 IN IF ~entry.exists THEN ParseErr(NotFound, <<"exists">>)
                    ELSE IF ~entry.is_file THEN ParseErr(Forbidden, <<"exists", "is_file">>)
                    ELSE IF ~entry.meta_ok
                         THEN ParseErr(InternalServerError, <<"exists", "is_file", "metadata">>)
                    ELSE IF too_large(file_size)
                         THEN ParseErr(PayloadTooLarge, <<"exists", "is_file", "metadata">>)
                    ELSE IF ~is_head /\ ~entry.open_ok
                         THEN ParseErr(InternalServerError,
                                       <<"exists", "is_file", "metadata", "open">>)
                    ELSE [tag |-> "Ok", status |-> HttpOk,
                          headers |-> ok_headers(get_content_type(rel), file_size),
                          file |-> file_for(is_head, file_path),
                          file_size |-> file_size, is_head |-> is_head,
                          fs_ops |-> IF is_head THEN <<"exists", "is_file", "metadata">>
                                     ELSE <<"exists", "is_file", "metadata", "open">>]

\* a detection whose loops stop one position early
contains_double_newline_short(buffer) ==
  \/ \E i \in 1..(Len(buffer) - 4) :
       /\ buffer[i] = "\r" /\ buffer[i + 1] = "\n"
       /\ buffer[i + 2] = "\r" /\ buffer[i + 3] = "\n"
  \/ \E i \in 1..(Len(buffer) - 2) : buffer[i] = "\n" /\ buffer[i + 1] = "\n"

\* contains_double_newline, with the loop bounds of the code (0-based there)
contains_double_newline(buffer) ==
  \/ \E i \in 1..(Len(buffer) - 3) :
       /\ buffer[i] = "\r" /\ buffer[i + 1] = "\n"
       /\ buffer[i + 2] = "\r" /\ buffer[i + 3] = "\n"
  \/ \E i \in 1..(Len(buffer) - 1) : buffer[i] = "\n" /\ buffer[i + 1] = "\n"


\* ------------------------------------------------------------ state
VARIABLES
  max_connections,    \* ConnectionManager.max_connections, fixed at start-up
  connections,        \* ConnectionManager.connections: descriptor -> Connection
  net,                \* the accepted sockets: descriptor -> peer side of the stream
  poisoned,           \* the index mutex is poisoned (a thread panicked holding it)
  pc,                 \* where the event-loop thread is in HttpServer::run
  closed_fds,         \* cleanup_closed_connections: descriptors still to remove
  queue,              \* the thread pool's queue of handler tasks
  total_connections,  \* run(): connections admitted so far
  active_connections, \* run(): the loop's count of live connections
  io,                 \* what the latest step did: thread, system calls, log line
  request_data,       \* a request handed to the parser on its own: its bytes
  parse_result,       \* what parse_http_request returned for request_data
  recv_result,        \* what the readable closure did with request_data on a new record
  holder,             \* the thread that holds the index mutex, or NoThread
  at,                 \* each thread: idle, waiting for the mutex, or locked (holding it)
  job,                \* each thread: the index operation it is in
  parse_tx,           \* the completion channel: the messages (fd, bytes) sent on it
  parse_thread        \* the thread spawned to parse a request: where it is, its data

\* the variables of the parser on its own
parser == <<request_data, parse_result, recv_result>>

\* the variables of the mutex, for the threads taken one lock() at a time
lock == <<holder, at, job>>

\* the event loop is thread 0, the pool threads are 1..threads
LoopThread == 0
Workers == 1..threads
Threads == {LoopThread} \cup Workers
NoThread == -1
NoJob == [kind |-> "none"]

\* the variables of the parse on a thread of its own
channel == <<parse_tx, parse_thread>>

NoParse == [at |-> "none", fd |-> 0, data |-> <<>>]

\* what the server, with each handler taken as one step, leaves alone
aux == <<parser, lock, channel>>

vars == <<max_connections, connections, net, poisoned, pc, closed_fds, queue,
          total_connections, active_connections, io, aux>>

\* Connection::new
NewConnection ==
  [stage |-> Recv,
   request_buffer |-> [i \in 1..BufCap |-> "0"],
   request_len |-> 0,
   file |-> NoFile,
   file_size |-> 0,
   file_sent |-> 0,
   headers |-> <<>>,
   headers_sent |-> 0,
   is_head |-> FALSE]

\* What a peer sends: the bytes, and the offsets at which the bytes that have
\* arrived so far can end (how the network delivers them).
Peer(bytes, arrivals) == [bytes |-> bytes, arrivals |-> arrivals]

GetA == Peer(<<"G", "E", "T", " ", "/", "a", "\n", "\n">>, {7, 8})
HeadA == Peer(<<"H", "E", "A", "D", " ", "/", "a", "\n", "\n">>, {2, 9})
GetMissing == Peer(<<"G", "E", "T", " ", "/", "n", "\n", "\n">>, {8})
GetNonAscii == Peer(<<"G", "E", "T", " ", "C3", "A9", "\n", "\n">>, {8})

\* a HEAD for a regular file that the server cannot open
HeadP == Peer(<<"H", "E", "A", "D", " ", "/", "p", "\n", "\n">>, {9})

\* more bytes than the request buffer holds, and no end-of-headers marker
Flood == Peer([i \in 1..(BufCap + 1) |-> "x"], {BufCap + 1})

PeerStreams == {GetA, HeadA, HeadP, GetMissing, GetNonAscii, Flood}

\* an accepted socket as the peer sees it: id numbers the accepted connections,
\* rd is how much of stream the server has read, wire is what it has written
NewSocket(id, peer) ==
  [id |-> id, stream |-> peer.bytes, arrivals |-> peer.arrivals, rd |-> 0, wire |-> <<>>]

NoResult == [tag |-> "None"]
NoIo == [thread |-> "none", fd |-> 0, ops |-> <<>>, log |-> "none"]
WorkerIo(fd, ops, log) == [thread |-> "worker", fd |-> fd, ops |-> ops, log |-> log]

Init ==
  /\ max_connections \in MaxConnectionsChoices
  /\ connections = <<>>
  /\ net = <<>>
  /\ poisoned = FALSE
  /\ pc = "accept"
  /\ closed_fds = {}
  /\ queue = <<>>
  /\ total_connections = 0
  /\ active_connections = 0
  /\ io = NoIo
  /\ request_data = <<>>
  /\ parse_result = NoResult
  /\ recv_result = NoResult
  /\ holder = NoThread
  /\ at = [t \in Threads |-> "idle"]
  /\ job = [t \in Threads |-> NoJob]
  /\ parse_tx = <<>>
  /\ parse_thread = NoParse

\* a function without / with one key
Without(f, k) == [x \in DOMAIN f \ {k} |-> f[x]]
With(f, k, v) == [x \in DOMAIN f \cup {k} |-> IF x = k THEN v ELSE f[x]]

\* ------------------------------------------------------------ handlers
\* One result of a handler closure: the record and the socket as it leaves
\* them, whether it panicked, what it did.
Result(conn, sock, panicked, ops, log) ==
  [conn |-> conn, sock |-> sock, panicked |-> panicked, ops |-> ops, log |-> log]

\* stream.read(&mut request_buffer[request_len..]): the byte counts Ok(n), n > 0,
\* the socket can return: what has arrived and is not read yet, at most the slice
ReadCounts(conn, sock) ==
  {Min(BufCap - conn.request_len, a - sock.rd) : a \in {b \in sock.arrivals : b > sock.rd}}
    \ {0}

\* the Ok(n) arm of the read and the rest of the closure
recv_bytes(conn, sock, n) ==
  LET buf == [i \in 1..BufCap |->
                IF i > conn.request_len /\ i <= conn.request_len + n
                THEN sock.stream[sock.rd + (i - conn.request_len)]
                ELSE conn.request_buffer[i]]
      len == conn.request_len + n
      sock2 == [sock EXCEPT !.rd = @ + n]
      got == [conn EXCEPT !.request_buffer = buf, !.request_len = len]
      buffer_slice == SubSeq(buf, 1, len)
  IN IF ~contains_double_newline(buffer_slice)
     THEN Result(got, sock2, FALSE, <<"sock_read">>, "read")
     ELSE
       LET p == parse_http_request(from_utf8_lossy(buffer_slice))
           parsing == [got EXCEPT !.request_len = 0, !.stage = Parse]
           fsops == [i \in 1..Len(p.fs_ops) |-> "fs_" \o p.fs_ops[i]]
       IN CASE p.tag = "Ok" ->
                 Result([parsing EXCEPT !.headers = p.headers, !.headers_sent = 0,
                                        !.file = p.file, !.file_size = p.file_size,
                                        !.is_head = p.is_head, !.stage = SendHeaders],
                        sock2, FALSE, <<"sock_read">> \o fsops, "parsed")
            [] p.tag = "Err" ->
                 Result([parsing EXCEPT !.headers = p.headers, !.headers_sent = 0,
                                        !.stage = SendHeaders],
                        sock2, FALSE, <<"sock_read">> \o fsops, "error_response")
            [] p.tag = "Panic" ->
                 Result(parsing, sock2, TRUE, <<"sock_read">>, "panic")

\* handle_readable without the test of the stage: it reads whatever the stage is
handle_readable_any_stage(conn, sock) ==
  {Result([conn EXCEPT !.stage = Close], sock, FALSE, <<"sock_read">>, "closed_by_client"),
   Result(conn, sock, FALSE, <<"sock_read">>, "would_block"),
   Result([conn EXCEPT !.stage = Close], sock, FALSE, <<"sock_read">>, "read_error")}
  \cup {recv_bytes(conn, sock, n) : n \in ReadCounts(conn, sock)}

\* handle_readable closing the connection when the read gives WouldBlock
handle_readable_would_block_closes(conn, sock) ==
  IF conn.stage # Recv THEN {Result(conn, sock, FALSE, <<>>, "not_recv")}
  ELSE
    {Result([conn EXCEPT !.stage = Close], sock, FALSE, <<"sock_read">>, "would_block")}
    \cup {recv_bytes(conn, sock, n) : n \in ReadCounts(conn, sock)}

\* read() into the empty slice of a full buffer: Ok(0) when bytes are queued on
\* the socket (WouldBlock when none are)
ZeroLengthRead(conn, sock) ==
  /\ conn.request_len = BufCap
  /\ \E a \in sock.arrivals : a > sock.rd

\* the closure of handle_readable_in_pool: every result it can have
handle_readable(conn, sock) ==
  IF conn.stage # Recv THEN {Result(conn, sock, FALSE, <<>>, "not_recv")}
  ELSE
    {Result([conn EXCEPT !.stage = Close], sock, FALSE, <<"sock_read">>, "closed_by_client"),
     Result(conn, sock, FALSE, <<"sock_read">>, "would_block"),
     Result([conn EXCEPT !.stage = Close], sock, FALSE, <<"sock_read">>, "read_error")}
    \cup {recv_bytes(conn, sock, n) : n \in ReadCounts(conn, sock)}
    \cup (IF ZeroLengthRead(conn, sock)
          THEN {Result([conn EXCEPT !.stage = Close], sock, FALSE, <<"sock_read">>,
                       "zero_length_read")}
          ELSE {})

\* handle_send_headers adding one more than the write accepted to headers_sent
handle_send_headers_counts_one_more(conn, sock) ==
  IF ~(conn.headers_sent < Len(conn.headers))
  THEN {Result(conn, sock, FALSE, <<>>, "nothing_to_send")}
  ELSE
    { LET sent == conn.headers_sent + n + 1
          sock2 == [sock EXCEPT !.wire =
                      @ \o SubSeq(conn.headers, conn.headers_sent + 1, conn.headers_sent + n)]
      IN IF sent >= Len(conn.headers)
         THEN IF conn.is_head \/ ~conn.file.open
              THEN Result([conn EXCEPT !.headers_sent = sent, !.stage = Close],
                          sock2, FALSE, <<"sock_write">>, "headers_sent_head")
              ELSE Result([conn EXCEPT !.headers_sent = sent, !.stage = SendFile],
                          sock2, FALSE, <<"sock_write">>, "headers_sent_file")
         ELSE Result([conn EXCEPT !.headers_sent = sent],
                     sock2, FALSE, <<"sock_write">>, "headers_partial")
      : n \in 1..(Len(conn.headers) - conn.headers_sent) }

\* handle_send_headers choosing the next stage by is_head alone
handle_send_headers_head_only(conn, sock) ==
  IF ~(conn.headers_sent < Len(conn.headers))
  THEN {Result(conn, sock, FALSE, <<>>, "nothing_to_send")}
  ELSE
    { LET sent == conn.headers_sent + n
          sock2 == [sock EXCEPT !.wire =
                      @ \o SubSeq(conn.headers, conn.headers_sent + 1, sent)]
      IN IF sent >= Len(conn.headers)
         THEN IF conn.is_head
              THEN Result([conn EXCEPT !.headers_sent = sent, !.stage = Close],
                          sock2, FALSE, <<"sock_write">>, "headers_sent_head")
              ELSE Result([conn EXCEPT !.headers_sent = sent, !.stage = SendFile],
                          sock2, FALSE, <<"sock_write">>, "headers_sent_file")
         ELSE Result([conn EXCEPT !.headers_sent = sent],
                     sock2, FALSE, <<"sock_write">>, "headers_partial")
      : n \in 1..(Len(conn.headers) - conn.headers_sent) }

\* handle_send_headers going back to Recv once a bodiless response is out
\* (a keep-alive that the code does not have)
handle_send_headers_keep_alive(conn, sock) ==
  IF ~(conn.headers_sent < Len(conn.headers))
  THEN {Result(conn, sock, FALSE, <<>>, "nothing_to_send")}
  ELSE
    { LET sent == conn.headers_sent + n
          sock2 == [sock EXCEPT !.wire =
                      @ \o SubSeq(conn.headers, conn.headers_sent + 1, sent)]
      IN IF sent >= Len(conn.headers)
         THEN IF conn.is_head \/ ~conn.file.open
              THEN Result([conn EXCEPT !.headers_sent = sent, !.stage = Recv],
                          sock2, FALSE, <<"sock_write">>, "headers_sent_head")
              ELSE Result([conn EXCEPT !.headers_sent = sent, !.stage = SendFile],
                          sock2, FALSE, <<"sock_write">>, "headers_sent_file")
         ELSE Result([conn EXCEPT !.headers_sent = sent],
                     sock2, FALSE, <<"sock_write">>, "headers_partial")
      : n \in 1..(Len(conn.headers) - conn.headers_sent) }

\* handle_send_headers leaving the stage alone when the write fails or the peer
\* has gone
handle_send_headers_ignores_failure(conn, sock) ==
  IF ~(conn.headers_sent < Len(conn.headers))
  THEN {Result(conn, sock, FALSE, <<>>, "nothing_to_send")}
  ELSE
    {Result(conn, sock, FALSE, <<"sock_write">>, "closed_sending_headers"),
     Result(conn, sock, FALSE, <<"sock_write">>, "would_block"),
     Result(conn, sock, FALSE, <<"sock_write">>, "write_error")}
    \cup
    { LET sent == conn.headers_sent + n
          sock2 == [sock EXCEPT !.wire =
                      @ \o SubSeq(conn.headers, conn.headers_sent + 1, sent)]
      IN IF sent >= Len(conn.headers)
         THEN IF conn.is_head \/ ~conn.file.open
              THEN Result([conn EXCEPT !.headers_sent = sent, !.stage = Close],
                          sock2, FALSE, <<"sock_write">>, "headers_sent_head")
              ELSE Result([conn EXCEPT !.headers_sent = sent, !.stage = SendFile],
                          sock2, FALSE, <<"sock_write">>, "headers_sent_file")
         ELSE Result([conn EXCEPT !.headers_sent = sent],
                     sock2, FALSE, <<"sock_write">>, "headers_partial")
      : n \in 1..(Len(conn.headers) - conn.headers_sent) }

\* the SendHeaders arm
handle_send_headers(conn, sock) ==
  IF ~(conn.headers_sent < Len(conn.headers))
  THEN {Result(conn, sock, FALSE, <<>>, "nothing_to_send")}
  ELSE
    {Result([conn EXCEPT !.stage = Close], sock, FALSE, <<"sock_write">>, "closed_sending_headers"),
     Result(conn, sock, FALSE, <<"sock_write">>, "would_block"),
     Result([conn EXCEPT !.stage = Close], sock, FALSE, <<"sock_write">>, "write_error")}
    \cup
    { LET sent == conn.headers_sent + n
          sock2 == [sock EXCEPT !.wire =
                      @ \o SubSeq(conn.headers, conn.headers_sent + 1, sent)]
      IN IF sent >= Len(conn.headers)
         THEN IF conn.is_head \/ ~conn.file.open
              THEN Result([conn EXCEPT !.headers_sent = sent, !.stage = Close],
                          sock2, FALSE, <<"sock_write">>, "headers_sent_head")
              ELSE Result([conn EXCEPT !.headers_sent = sent, !.stage = SendFile],
                          sock2, FALSE, <<"sock_write">>, "headers_sent_file")
         ELSE Result([conn EXCEPT !.headers_sent = sent],
                     sock2, FALSE, <<"sock_write">>, "headers_partial")
      : n \in 1..(Len(conn.headers) - conn.headers_sent) }

\* file.read(&mut buffer): the byte counts Ok(k) a read at the file's position
\* can return; 0 only at the end of the file
FileReadCounts(file) ==
  LET left == Len(fs(file.path).body) - file.pos
  IN IF left <= 0 THEN {0} ELSE 1..Min(ReadBufLen, left)

\* send_file_chunk without the seek after a partial write
send_file_chunk_no_seek_partial(conn, sock, bytes_read) ==
  LET pos == conn.file.pos
      after_read == [conn EXCEPT !.file.pos = pos + bytes_read]
      ops == <<"file_read", "sock_write">>
  IN {Result([after_read EXCEPT !.file.pos = @ - bytes_read], sock, FALSE,
             ops \o <<"file_seek">>, "would_block")}
     \cup
     { LET sent == conn.file_sent + bytes_written
           sock2 == [sock EXCEPT !.wire =
                       @ \o SubSeq(fs(conn.file.path).body, pos + 1, pos + bytes_written)]
       IN IF sent >= conn.file_size
          THEN Result([after_read EXCEPT !.file_sent = sent, !.stage = Close],
                      sock2, FALSE, ops, "file_sent_completely")
          ELSE Result([after_read EXCEPT !.file_sent = sent], sock2, FALSE, ops, "file_chunk")
       : bytes_written \in 1..bytes_read }

\* send_file_chunk without the seek after WouldBlock
send_file_chunk_no_seek_would_block(conn, sock, bytes_read) ==
  LET pos == conn.file.pos
      after_read == [conn EXCEPT !.file.pos = pos + bytes_read]
      ops == <<"file_read", "sock_write">>
  IN {Result(after_read, sock, FALSE, ops, "would_block")}
     \cup
     { LET sent == conn.file_sent + bytes_written
           sock2 == [sock EXCEPT !.wire =
                       @ \o SubSeq(fs(conn.file.path).body, pos + 1, pos + bytes_written)]
       IN IF sent >= conn.file_size
          THEN Result([after_read EXCEPT !.file_sent = sent, !.stage = Close],
                      sock2, FALSE, ops, "file_sent_completely")
          ELSE IF bytes_written < bytes_read
          THEN Result([after_read EXCEPT !.file_sent = sent,
                                         !.file.pos = @ - (bytes_read - bytes_written)],
                      sock2, FALSE, ops \o <<"file_seek">>, "file_partial")
          ELSE Result([after_read EXCEPT !.file_sent = sent], sock2, FALSE, ops, "file_chunk")
       : bytes_written \in 1..bytes_read }

\* send_file_chunk adding the bytes read to file_sent, not the bytes written
send_file_chunk_counts_read(conn, sock, bytes_read) ==
  LET pos == conn.file.pos
      after_read == [conn EXCEPT !.file.pos = pos + bytes_read]
      ops == <<"file_read", "sock_write">>
  IN { LET sent == conn.file_sent + bytes_read
           sock2 == [sock EXCEPT !.wire =
                       @ \o SubSeq(fs(conn.file.path).body, pos + 1, pos + bytes_written)]
       IN IF sent >= conn.file_size
          THEN Result([after_read EXCEPT !.file_sent = sent, !.stage = Close],
                      sock2, FALSE, ops, "file_sent_completely")
          ELSE IF bytes_written < bytes_read
          THEN Result([after_read EXCEPT !.file_sent = sent,
                                         !.file.pos = @ - (bytes_read - bytes_written)],
                      sock2, FALSE, ops \o <<"file_seek">>, "file_partial")
          ELSE Result([after_read EXCEPT !.file_sent = sent], sock2, FALSE, ops, "file_chunk")
       : bytes_written \in 1..bytes_read }

\* the Ok(bytes_read) arm: write the slice, account, seek back
send_file_chunk(conn, sock, bytes_read) ==
  LET pos == conn.file.pos
      after_read == [conn EXCEPT !.file.pos = pos + bytes_read]
      ops == <<"file_read", "sock_write">>
  IN {Result([after_read EXCEPT !.stage = Close], sock, FALSE, ops, "closed_sending_file"),
      Result([after_read EXCEPT !.file.pos = @ - bytes_read], sock, FALSE,
             ops \o <<"file_seek">>, "would_block"),
      Result([after_read EXCEPT !.stage = Close], sock, FALSE, ops, "write_error")}
     \cup
     { LET sent == conn.file_sent + bytes_written
           sock2 == [sock EXCEPT !.wire =
                       @ \o SubSeq(fs(conn.file.path).body, pos + 1, pos + bytes_written)]
       IN IF sent >= conn.file_size
          THEN Result([after_read EXCEPT !.file_sent = sent, !.stage = Close],
                      sock2, FALSE, ops, "file_sent_completely")
          ELSE IF bytes_written < bytes_read
          THEN Result([after_read EXCEPT !.file_sent = sent,
                                         !.file.pos = @ - (bytes_read - bytes_written)],
                      sock2, FALSE, ops \o <<"file_seek">>, "file_partial")
          ELSE Result([after_read EXCEPT !.file_sent = sent], sock2, FALSE, ops, "file_chunk")
       : bytes_written \in 1..bytes_read }

\* the SendFile arm
handle_send_file(conn, sock) ==
  IF ~conn.file.open
  THEN {Result([conn EXCEPT !.stage = Close], sock, FALSE, <<>>, "no_file")}
  ELSE
    {Result([conn EXCEPT !.stage = Close], sock, FALSE, <<"file_read">>, "file_read_error")}
    \cup
    UNION { IF k = 0
            THEN {Result([conn EXCEPT !.stage = Close], sock, FALSE, <<"file_read">>,
                         "file_sent_completely")}
            ELSE send_file_chunk(conn, sock, k)
            : k \in FileReadCounts(conn.file) }

\* the closure of handle_writable_in_pool: every result it can have
handle_writable(conn, sock) ==
  CASE conn.stage = SendHeaders -> handle_send_headers(conn, sock)
    [] conn.stage = SendFile -> handle_send_file(conn, sock)
    [] OTHER -> {Result(conn, sock, FALSE, <<>>, "not_sending")}

\* ------------------------------------------------------------ the index
\* ConnectionManager::with_connection: the closure runs on the record under fd,
\* if there is one, with the mutex held.  lock().unwrap() panics on a poisoned
\* mutex; a panic inside the closure poisons it.
with_connection(fd, results) ==
  IF poisoned
  THEN /\ io' = WorkerIo(fd, <<>>, "lock_poisoned")
       /\ UNCHANGED <<connections, net, poisoned>>
  ELSE IF fd \notin DOMAIN connections
  THEN /\ io' = WorkerIo(fd, <<>>, "unknown_fd")
       /\ UNCHANGED <<connections, net, poisoned>>
  ELSE \E r \in results :
         /\ connections' = [connections EXCEPT ![fd] = r.conn]
         /\ net' = [net EXCEPT ![fd] = r.sock]
         /\ poisoned' = r.panicked
         /\ io' = WorkerIo(fd, r.ops, r.log)

\* the closure's results for the record under fd (none when fd is unknown)
ClosureResults(kind, fd) ==
  IF fd \notin DOMAIN connections THEN {}
  ELSE IF kind = "readable" THEN handle_readable(connections[fd], net[fd])
  ELSE handle_writable(connections[fd], net[fd])

\* a pool thread runs one of the first `threads` queued tasks
handle_readable_in_pool(i) ==
  /\ pc # "dead"
  /\ i \in 1..Min(threads, Len(queue))
  /\ queue[i].kind = "readable"
  /\ queue' = SubSeq(queue, 1, i - 1) \o SubSeq(queue, i + 1, Len(queue))
  /\ with_connection(queue[i].fd, ClosureResults("readable", queue[i].fd))
  /\ UNCHANGED <<max_connections, pc, closed_fds, total_connections, active_connections>>
  /\ UNCHANGED aux

handle_writable_in_pool(i) ==
  /\ pc # "dead"
  /\ i \in 1..Min(threads, Len(queue))
  /\ queue[i].kind = "writable"
  /\ queue' = SubSeq(queue, 1, i - 1) \o SubSeq(queue, i + 1, Len(queue))
  /\ with_connection(queue[i].fd, ClosureResults("writable", queue[i].fd))
  /\ UNCHANGED <<max_connections, pc, closed_fds, total_connections, active_connections>>
  /\ UNCHANGED aux

\* add_connection without the test of the cap
add_connection_no_cap(fd) == With(connections, fd, NewConnection)

\* add_connection testing len() > max_connections
add_connection_off_by_one(fd) ==
  IF Cardinality(DOMAIN connections) > max_connections
  THEN connections
  ELSE With(connections, fd, NewConnection)

\* ConnectionManager::add_connection: the index after the call (the returned
\* bool is whether it changed: fd was not a key before)
add_connection(fd) ==
  IF Cardinality(DOMAIN connections) >= max_connections
  THEN connections
  ELSE With(connections, fd, NewConnection)

\* remove_connection leaving the record in the index
remove_connection_keeps_record(fd) == connections

\* ConnectionManager::remove_connection
remove_connection(fd) == Without(connections, fd)

\* a readable list that also takes the records in Close
read_fds_with_closed ==
  {fd \in DOMAIN connections : connections[fd].stage \in {Recv, Parse, Close}}

\* ConnectionManager::get_connections_for_select
read_fds == {fd \in DOMAIN connections : connections[fd].stage \in {Recv, Parse}}
write_fds == {fd \in DOMAIN connections : connections[fd].stage \in {SendHeaders, SendFile}}

\* ConnectionManager::get_closed_connections
get_closed_connections == {fd \in DOMAIN connections : connections[fd].stage = Close}

\* ------------------------------------------------------------ event loop
LoopIo(fd, ops, log) == [thread |-> "loop", fd |-> fd, ops |-> ops, log |-> log]

\* lock().unwrap() on the loop thread with the mutex poisoned: the main thread
\* panics and the process ends
LoopPanics ==
  /\ pc \in {"accept", "select", "cleanup", "reap"}
  /\ poisoned
  /\ pc' = "dead"
  /\ io' = LoopIo(0, <<>>, "lock_poisoned")
  /\ UNCHANGED <<max_connections, connections, net, poisoned, closed_fds, queue,
                 total_connections, active_connections>>
  /\ UNCHANGED aux

\* accept_new_connections: accept() gives WouldBlock or an error, or
\* set_nonblocking fails: nothing is admitted
AcceptNothing ==
  /\ pc = "accept"
  /\ pc' = "select"
  /\ io' = LoopIo(0, <<"accept">>, "no_connection")
  /\ UNCHANGED <<max_connections, connections, net, poisoned, closed_fds, queue,
                 total_connections, active_connections>>
  /\ UNCHANGED aux

\* accept_new_connections counting a socket it turned away
AcceptConnection_counts_rejected(fd, stream) ==
  /\ pc = "accept"
  /\ ~poisoned
  /\ fd \in Fds \ DOMAIN net
  /\ \A other \in Fds \ DOMAIN net : fd <= other
  /\ pc' = "select"
  /\ connections' = add_connection(fd)
  /\ total_connections < MaxTotal
  /\ total_connections' = total_connections + 1
  /\ active_connections' = active_connections + 1
  /\ IF connections' # connections
     THEN /\ net' = With(net, fd, NewSocket(total_connections + 1, stream))
          /\ io' = LoopIo(fd, <<"accept">>, "accepted")
     ELSE /\ io' = LoopIo(fd, <<"accept", "sock_close">>, "rejected")
          /\ UNCHANGED net
  /\ UNCHANGED <<max_connections, poisoned, closed_fds, queue>>
  /\ UNCHANGED aux

\* accept_new_connections: accept() gives a stream, on the lowest descriptor
\* number that is not open (POSIX)
AcceptConnection(fd, stream) ==
  /\ pc = "accept"
  /\ ~poisoned
  /\ fd \in Fds \ DOMAIN net
  /\ \A other \in Fds \ DOMAIN net : fd <= other
  /\ pc' = "select"
  /\ connections' = add_connection(fd)
  /\ IF connections' # connections
     THEN /\ total_connections < MaxTotal
          /\ total_connections' = total_connections + 1
          /\ active_connections' = active_connections + 1
          /\ net' = With(net, fd, NewSocket(total_connections + 1, stream))
          /\ io' = LoopIo(fd, <<"accept">>, "accepted")
     ELSE /\ io' = LoopIo(fd, <<"accept", "sock_close">>, "rejected")
          /\ UNCHANGED <<net, total_connections, active_connections>>
  /\ UNCHANGED <<max_connections, poisoned, closed_fds, queue>>
  /\ UNCHANGED aux

\* the orders in which a set can be pushed
Orders(S) ==
  {q \in [1..Cardinality(S) -> S] : \A i, j \in 1..Cardinality(S) : i # j => q[i] # q[j]}

Tasks(kind, order) == [i \in 1..Len(order) |-> [kind |-> kind, fd |-> order[i]]]

\* handle_ready_connections with nothing to wait for
SelectNothing ==
  /\ pc = "select"
  /\ ~poisoned
  /\ read_fds = {} /\ write_fds = {}
  /\ pc' = "cleanup"
  /\ io' = LoopIo(0, <<>>, "no_fds")
  /\ UNCHANGED <<max_connections, connections, net, poisoned, closed_fds, queue,
                 total_connections, active_connections>>
  /\ UNCHANGED aux

\* handle_ready_connections: pselect reports ready_r readable and ready_w
\* writable (both empty on a timeout or an error); one task is queued for each,
\* the readable ones first
SelectAndDispatch(ready_r, ready_w) ==
  /\ pc = "select"
  /\ ~poisoned
  /\ ~(read_fds = {} /\ write_fds = {})
  /\ ready_r \subseteq read_fds
  /\ ready_w \subseteq write_fds
  /\ Len(queue) + Cardinality(ready_r) + Cardinality(ready_w) <= MaxQueue
  /\ \E r \in Orders(ready_r), w \in Orders(ready_w) :
       queue' = queue \o Tasks("readable", r) \o Tasks("writable", w)
  /\ pc' = "cleanup"
  /\ io' = LoopIo(0, <<"pselect">>, "dispatched")
  /\ UNCHANGED <<max_connections, connections, net, poisoned, closed_fds,
                 total_connections, active_connections>>
  /\ UNCHANGED aux

\* cleanup_closed_connections: list the descriptors in stage Close
ListClosed ==
  /\ pc = "cleanup"
  /\ ~poisoned
  /\ closed_fds' = get_closed_connections
  /\ pc' = IF closed_fds' = {} THEN "accept" ELSE "reap"
  /\ io' = LoopIo(0, <<>>, "listed")
  /\ UNCHANGED <<max_connections, connections, net, poisoned, queue,
                 total_connections, active_connections>>
  /\ UNCHANGED aux

\* a reap that removes the record and leaves its socket open
Reap_keeps_socket(fd) ==
  /\ pc = "reap"
  /\ ~poisoned
  /\ fd \in closed_fds
  /\ closed_fds' = closed_fds \ {fd}
  /\ pc' = IF closed_fds' = {} THEN "accept" ELSE "reap"
  /\ connections' = remove_connection(fd)
  /\ active_connections' = active_connections - 1
  /\ io' = LoopIo(fd, <<>>, "closed")
  /\ UNCHANGED <<max_connections, net, poisoned, queue, total_connections>>
  /\ UNCHANGED aux

\* cleanup_closed_connections: remove one listed descriptor; the record is
\* dropped, which closes its socket and its file
Reap(fd) ==
  /\ pc = "reap"
  /\ ~poisoned
  /\ fd \in closed_fds
  /\ closed_fds' = closed_fds \ {fd}
  /\ pc' = IF closed_fds' = {} THEN "accept" ELSE "reap"
  /\ connections' = remove_connection(fd)
  /\ IF fd \in DOMAIN connections
     THEN /\ active_connections' = active_connections - 1
          /\ net' = Without(net, fd)
          /\ io' = LoopIo(fd, <<"sock_close">>, "closed")
     ELSE /\ io' = LoopIo(fd, <<>>, "already_removed")
          /\ UNCHANGED <<net, active_connections>>
  /\ UNCHANGED <<max_connections, poisoned, queue, total_connections>>
  /\ UNCHANGED aux

Next ==
  \/ LoopPanics
  \/ AcceptNothing
  \/ \E fd \in Fds, stream \in PeerStreams : AcceptConnection(fd, stream)
  \/ SelectNothing
  \/ \E ready_r \in SUBSET read_fds, ready_w \in SUBSET write_fds :
       SelectAndDispatch(ready_r, ready_w)
  \/ ListClosed
  \/ \E fd \in Fds : Reap(fd)
  \/ \E i \in 1..MaxQueue : handle_readable_in_pool(i)
  \/ \E i \in 1..MaxQueue : handle_writable_in_pool(i)

Spec == Init /\ [][Next]_vars

\* ------------------------------------------------------------ fair scheduling
\* run()'s loop never waits for more than the pselect timeout and the sleep
LoopStep ==
  \/ LoopPanics
  \/ AcceptNothing
  \/ \E fd \in Fds, stream \in PeerStreams : AcceptConnection(fd, stream)
  \/ SelectNothing
  \/ \E ready_r \in SUBSET read_fds, ready_w \in SUBSET write_fds :
       SelectAndDispatch(ready_r, ready_w)
  \/ ListClosed
  \/ \E fd \in Fds : Reap(fd)

\* pselect reports fd writable and a task is queued for it
DispatchWritable(fd) ==
  \E ready_r \in SUBSET read_fds, ready_w \in SUBSET write_fds :
    fd \in ready_w /\ SelectAndDispatch(ready_r, ready_w)

\* a pool thread runs a queued task
ReadableStep == \E i \in 1..MaxQueue : handle_readable_in_pool(i)
WritableStep == \E i \in 1..MaxQueue : handle_writable_in_pool(i)

\* ENABLED <<ReadableStep>>_vars: the guard of handle_readable_in_pool (the
\* step always takes its task off the queue)
ReadableTaskReady ==
  /\ pc # "dead"
  /\ \E i \in 1..Min(threads, Len(queue)) : queue[i].kind = "readable"

\* the outcomes of the SendFile arm in which the peer took at least one byte
AcceptedBytes == {"file_chunk", "file_partial", "file_sent_completely"}

\* a writable task on fd whose write the peer accepts
WriteAccepted(fd) ==
  /\ \E i \in 1..Len(queue) : queue[i].fd = fd /\ handle_writable_in_pool(i)
  /\ io'.log \in AcceptedBytes

\* pselect reports fd readable and a task is queued for it
DispatchReadable(fd) ==
  \E ready_r \in SUBSET read_fds, ready_w \in SUBSET write_fds :
    fd \in ready_r /\ SelectAndDispatch(ready_r, ready_w)

\* a readable task on fd whose read does not give WouldBlock: the peer's bytes
\* have arrived
ReadAnswered(fd) ==
  /\ \E i \in 1..Len(queue) : queue[i].fd = fd /\ handle_readable_in_pool(i)
  /\ io'.log # "would_block"

\* ENABLED <<ReadAnswered(fd)>>_vars: a readable task for fd can be run
ReadableTaskReadyFor(fd) ==
  /\ pc # "dead"
  /\ \E i \in 1..Min(threads, Len(queue)) : queue[i] = [kind |-> "readable", fd |-> fd]

\* the outcomes of the SendHeaders arm in which the peer took at least one byte
AcceptedHeaderBytes == {"headers_partial", "headers_sent_head", "headers_sent_file"}

\* a writable task on fd whose write of header bytes the peer accepts
HeaderWriteAccepted(fd) ==
  /\ \E i \in 1..Len(queue) : queue[i].fd = fd /\ handle_writable_in_pool(i)
  /\ io'.log \in AcceptedHeaderBytes

\* The loop and the pool threads keep running; a socket that is writable again
\* and again is reported so, and its peer takes bytes again and again.  The
\* third conjunct is WF_vars(ReadableStep) with ENABLED written out.
Fairness ==
  /\ WF_vars(LoopStep)
  /\ WF_vars(WritableStep)
  /\ []<>(~ReadableTaskReady) \/ []<><<ReadableStep>>_vars
  /\ \A fd \in Fds : SF_vars(DispatchWritable(fd))
  /\ \A fd \in Fds : SF_vars(WriteAccepted(fd))

LiveSpec == Spec /\ Fairness

\* A socket that is readable again and again is reported so, the bytes its peer
\* sent arrive, and its peer takes header bytes again and again.  The second
\* conjunct is SF_vars(ReadAnswered(fd)) with ENABLED written out.
RequestFairness ==
  /\ \A fd \in Fds : SF_vars(DispatchReadable(fd))
  /\ \A fd \in Fds : <>[](~ReadableTaskReadyFor(fd)) \/ []<><<ReadAnswered(fd)>>_vars
  /\ \A fd \in Fds : SF_vars(HeaderWriteAccepted(fd))

ServeSpec == Spec /\ Fairness /\ RequestFairness

\* ------------------------------------------------------------ the parser on its own
\* The requests handed to the parser: a first line of no, one, two or three
\* tokens and the end-of-headers marker in either form.
Methods ==
  {<<"G", "E", "T">>, <<"H", "E", "A", "D">>, <<"P", "O", "S", "T">>,
   <<"h", "e", "a", "d">>, <<"G">>}

Paths ==
  {<<"/">>, <<"/", "a">>, <<"/", "e">>, <<"/", "b">>, <<"/", "p">>, <<"/", "m">>,
   <<"/", "d">>, <<"/", "n">>, <<"/", ".", ".">>, <<"/", "n", ".", ".", "n">>,
   <<"/", "a", ".", ".">>,
   <<"a">>, <<"C3", "A9">>, <<"/", "C3", "A9">>}

RequestLines ==
  {<<>>} \cup Methods
    \cup {m \o <<" ">> \o p : m \in Methods, p \in Paths}
    \cup {m \o <<" ">> \o p \o <<" ", "H">> : m \in Methods, p \in Paths}

\* the two markers, a marker with a byte after it, and two sequences that
\* are not a marker
Endings ==
  {<<"\n", "\n">>, <<"\r", "\n", "\r", "\n">>, <<"\n", "\n", "x">>,
   <<"\n", "\r", "\n">>, <<"\r", "\n", "\r">>}

Requests == {l \o e : l \in RequestLines, e \in Endings}

server == <<max_connections, connections, net, poisoned, pc, closed_fds, queue,
            total_connections, active_connections, io>>

ParserInit ==
  /\ max_connections = 1
  /\ connections = <<>>
  /\ net = <<>>
  /\ poisoned = FALSE
  /\ pc = "accept"
  /\ closed_fds = {}
  /\ queue = <<>>
  /\ total_connections = 0
  /\ active_connections = 0
  /\ io = NoIo
  /\ request_data \in Requests
  /\ parse_result = NoResult
  /\ recv_result = NoResult
  /\ holder = NoThread
  /\ at = [t \in Threads |-> "idle"]
  /\ job = [t \in Threads |-> NoJob]
  /\ parse_tx = <<>>
  /\ parse_thread = NoParse

\* parse_http_request(&String::from_utf8_lossy(&request_data), ...)
ParseRequest ==
  /\ parse_result = NoResult
  /\ contains_double_newline(request_data)
  /\ parse_result' = parse_http_request(from_utf8_lossy(request_data))
  /\ UNCHANGED <<server, lock, channel, request_data, recv_result>>

\* the readable closure on a new record whose peer has sent request_data
ReceiveRequest ==
  /\ recv_result = NoResult
  /\ recv_result' \in handle_readable(NewConnection,
                                      NewSocket(1, Peer(request_data, {Len(request_data)})))
  /\ UNCHANGED <<server, lock, channel, request_data, parse_result>>

ParserNext == ParseRequest \/ ReceiveRequest

ParserSpec == ParserInit /\ [][ParserNext]_vars

\* ------------------------------------------------------------ every answer
\* The server with peers whose requests draw every answer of the parser: 400,
\* 403 for "..", 403 for a directory, 404, 413, 500 for metadata(), 500 for
\* open(), 200, and the request on which the parser panics.
GetNoPath == Peer(<<"G", "E", "T", "\n", "\n">>, {5})
GetDotDot == Peer(<<"G", "E", "T", " ", "/", ".", ".", "\n", "\n">>, {9})
GetDir == Peer(<<"G", "E", "T", " ", "/", "d", "\n", "\n">>, {8})
GetTooLarge == Peer(<<"G", "E", "T", " ", "/", "b", "\n", "\n">>, {8})
GetNoMetadata == Peer(<<"G", "E", "T", " ", "/", "m", "\n", "\n">>, {8})
GetUnreadable == Peer(<<"G", "E", "T", " ", "/", "p", "\n", "\n">>, {8})

AnswerStreams ==
  {GetNoPath, GetDotDot, GetDir, GetMissing, GetTooLarge, GetNoMetadata, GetUnreadable,
   GetA, GetNonAscii}

AnswerNext ==
  \/ LoopPanics
  \/ AcceptNothing
  \/ \E fd \in Fds, stream \in AnswerStreams : AcceptConnection(fd, stream)
  \/ SelectNothing
  \/ \E ready_r \in SUBSET read_fds, ready_w \in SUBSET write_fds :
       SelectAndDispatch(ready_r, ready_w)
  \/ ListClosed
  \/ \E fd \in Fds : Reap(fd)
  \/ \E i \in 1..MaxQueue : handle_readable_in_pool(i)
  \/ \E i \in 1..MaxQueue : handle_writable_in_pool(i)

AnswerSpec == Init /\ [][AnswerNext]_vars

\* ------------------------------------------------------------ the index mutex
\* The same server with every call of the ConnectionManager taken in three
\* moments: the thread asks for the mutex, gets it, and runs the body of the
\* call and drops the guard.
Release(t) ==
  /\ holder' = NoThread
  /\ at' = [at EXCEPT ![t] = "idle"]
  /\ job' = [job EXCEPT ![t] = NoJob]

\* a pool thread takes the oldest task of the queue and calls with_connection
take_task(t) ==
  /\ at[t] = "idle"
  /\ pc # "dead"
  /\ queue # <<>>
  /\ queue' = Tail(queue)
  /\ job' = [job EXCEPT ![t] = Head(queue)]
  /\ at' = [at EXCEPT ![t] = "waiting"]
  /\ UNCHANGED <<max_connections, connections, net, poisoned, pc, closed_fds,
                 total_connections, active_connections, io, holder, parser, channel>>

\* a lock() that does not wait for the thread that holds the mutex
mutex_lock_no_exclusion(t) ==
  /\ at[t] = "waiting"
  /\ pc # "dead"
  /\ ~poisoned
  /\ holder' = t
  /\ at' = [at EXCEPT ![t] = "locked"]
  /\ UNCHANGED <<server, job, parser, channel>>

\* self.connections.lock(): the thread gets the mutex when no thread holds it
mutex_lock(t) ==
  /\ at[t] = "waiting"
  /\ pc # "dead"
  /\ holder = NoThread
  /\ ~poisoned
  /\ holder' = t
  /\ at' = [at EXCEPT ![t] = "locked"]
  /\ UNCHANGED <<server, job, parser, channel>>

\* lock().unwrap() on the poisoned mutex: the thread panics; the panic of the
\* loop thread ends run()
lock_unwrap_panics(t) ==
  /\ at[t] = "waiting"
  /\ pc # "dead"
  /\ holder = NoThread
  /\ poisoned
  /\ at' = [at EXCEPT ![t] = "idle"]
  /\ job' = [job EXCEPT ![t] = NoJob]
  /\ pc' = IF t = LoopThread THEN "dead" ELSE pc
  /\ io' = IF t = LoopThread THEN LoopIo(0, <<>>, "lock_poisoned")
           ELSE WorkerIo(job[t].fd, <<>>, "lock_poisoned")
  /\ UNCHANGED <<max_connections, connections, net, poisoned, closed_fds, queue,
                 total_connections, active_connections, holder, parser, channel>>

\* with_connection after the lock: the closure on the record, then the guard
\* is dropped (by the unwinding too, when the closure panics)
run_closure(t) ==
  /\ t \in Workers
  /\ at[t] = "locked"
  /\ with_connection(job[t].fd, ClosureResults(job[t].kind, job[t].fd))
  /\ Release(t)
  /\ UNCHANGED <<max_connections, pc, closed_fds, queue, total_connections,
                 active_connections, parser, channel>>

\* the requests of the peers of this specification: one that is answered and
\* one whose parse panics with the mutex held
LockStreams == {GetMissing, GetNonAscii}

\* accept_new_connections: nothing to accept
loop_accepts_nothing ==
  /\ pc = "accept"
  /\ at[LoopThread] = "idle"
  /\ pc' = "select"
  /\ io' = LoopIo(0, <<"accept">>, "no_connection")
  /\ UNCHANGED <<max_connections, connections, net, poisoned, closed_fds, queue,
                 total_connections, active_connections, lock, parser, channel>>

\* accept_new_connections: accept() gives a stream and add_connection is called
loop_accepts(fd, stream) ==
  /\ pc = "accept"
  /\ at[LoopThread] = "idle"
  /\ fd \in Fds \ DOMAIN net
  /\ \A other \in Fds \ DOMAIN net : fd <= other
  /\ total_connections < MaxTotal
  /\ job' = [job EXCEPT ![LoopThread] = [kind |-> "add", fd |-> fd, stream |-> stream]]
  /\ at' = [at EXCEPT ![LoopThread] = "waiting"]
  /\ io' = LoopIo(fd, <<"accept">>, "accepting")
  /\ UNCHANGED <<max_connections, connections, net, poisoned, pc, closed_fds, queue,
                 total_connections, active_connections, holder, parser, channel>>

\* add_connection after the lock
add_under_lock ==
  /\ at[LoopThread] = "locked"
  /\ job[LoopThread].kind = "add"
  /\ connections' = add_connection(job[LoopThread].fd)
  /\ IF connections' # connections
     THEN /\ total_connections' = total_connections + 1
          /\ active_connections' = active_connections + 1
          /\ net' = With(net, job[LoopThread].fd,
                         NewSocket(total_connections + 1, job[LoopThread].stream))
          /\ io' = LoopIo(job[LoopThread].fd, <<>>, "accepted")
     ELSE /\ io' = LoopIo(job[LoopThread].fd, <<"sock_close">>, "rejected")
          /\ UNCHANGED <<net, total_connections, active_connections>>
  /\ pc' = "select"
  /\ Release(LoopThread)
  /\ UNCHANGED <<max_connections, poisoned, closed_fds, queue, parser, channel>>

\* the loop calls get_connections_for_select, get_closed_connections or
\* remove_connection
loop_calls(call) ==
  /\ at[LoopThread] = "idle"
  /\ \/ pc = "select" /\ call = [kind |-> "lists"]
     \/ pc = "cleanup" /\ call = [kind |-> "closed"]
     \/ pc = "reap" /\ call.kind = "remove" /\ call.fd \in closed_fds
  /\ job' = [job EXCEPT ![LoopThread] = call]
  /\ at' = [at EXCEPT ![LoopThread] = "waiting"]
  /\ UNCHANGED <<server, holder, parser, channel>>

\* get_connections_for_select after the lock: the two lists, as they are now
lists_under_lock ==
  /\ at[LoopThread] = "locked"
  /\ job[LoopThread].kind = "lists"
  /\ holder' = NoThread
  /\ at' = [at EXCEPT ![LoopThread] = "idle"]
  /\ job' = [job EXCEPT ![LoopThread] = [kind |-> "listed", r |-> read_fds, w |-> write_fds]]
  /\ pc' = "pselect"
  /\ io' = LoopIo(0, <<>>, "listed")
  /\ UNCHANGED <<max_connections, connections, net, poisoned, closed_fds, queue,
                 total_connections, active_connections, parser, channel>>

\* pselect on the two lists and a task for every descriptor it reports
dispatch(ready_r, ready_w) ==
  /\ pc = "pselect"
  /\ ready_r \subseteq job[LoopThread].r
  /\ ready_w \subseteq job[LoopThread].w
  /\ Len(queue) + Cardinality(ready_r) + Cardinality(ready_w) <= MaxQueue
  /\ \E r \in Orders(ready_r), w \in Orders(ready_w) :
       queue' = queue \o Tasks("readable", r) \o Tasks("writable", w)
  /\ job' = [job EXCEPT ![LoopThread] = NoJob]
  /\ pc' = "cleanup"
  /\ io' = LoopIo(0, <<"pselect">>, "dispatched")
  /\ UNCHANGED <<max_connections, connections, net, poisoned, closed_fds,
                 total_connections, active_connections, holder, at, parser, channel>>

\* get_closed_connections after the lock
closed_under_lock ==
  /\ at[LoopThread] = "locked"
  /\ job[LoopThread].kind = "closed"
  /\ closed_fds' = get_closed_connections
  /\ pc' = IF closed_fds' = {} THEN "accept" ELSE "reap"
  /\ io' = LoopIo(0, <<>>, "listed")
  /\ Release(LoopThread)
  /\ UNCHANGED <<max_connections, connections, net, poisoned, queue,
                 total_connections, active_connections, parser, channel>>

\* remove_connection after the lock, and the drop of the record it returns
remove_under_lock ==
  /\ at[LoopThread] = "locked"
  /\ job[LoopThread].kind = "remove"
  /\ closed_fds' = closed_fds \ {job[LoopThread].fd}
  /\ pc' = IF closed_fds' = {} THEN "accept" ELSE "reap"
  /\ connections' = remove_connection(job[LoopThread].fd)
  /\ IF job[LoopThread].fd \in DOMAIN connections
     THEN /\ active_connections' = active_connections - 1
          /\ net' = Without(net, job[LoopThread].fd)
          /\ io' = LoopIo(job[LoopThread].fd, <<"sock_close">>, "closed")
     ELSE /\ io' = LoopIo(job[LoopThread].fd, <<>>, "already_removed")
          /\ UNCHANGED <<net, active_connections>>
  /\ Release(LoopThread)
  /\ UNCHANGED <<max_connections, poisoned, queue, total_connections, parser, channel>>

LockNext ==
  \/ \E t \in Workers : take_task(t)
  \/ \E t \in Threads : mutex_lock(t)
  \/ \E t \in Threads : lock_unwrap_panics(t)
  \/ \E t \in Workers : run_closure(t)
  \/ loop_accepts_nothing
  \/ \E fd \in Fds, stream \in LockStreams : loop_accepts(fd, stream)
  \/ add_under_lock
  \/ \E call \in {[kind |-> "lists"], [kind |-> "closed"]}
                    \cup {[kind |-> "remove", fd |-> fd] : fd \in Fds} : loop_calls(call)
  \/ lists_under_lock
  \/ \E ready_r \in SUBSET Fds, ready_w \in SUBSET Fds : dispatch(ready_r, ready_w)
  \/ closed_under_lock
  \/ remove_under_lock

LockSpec == Init /\ [][LockNext]_vars

\* ------------------------------------------------------------ the parse on its own thread
\* ConnectionHandler and RequestParser: the read handler hands the request to a
\* thread it spawns, which answers on the channel parse_tx.  One connection,
\* whose peer sends one of Requests.
accept_one ==
  /\ total_connections = 0
  /\ AcceptConnection(1, Peer(request_data, {Len(request_data)}))

\* handle_readable_connection: handle_recv_stage on a record in Recv
handle_readable_connection(fd) ==
  /\ fd \in DOMAIN connections
  /\ connections[fd].stage = Recv
  /\ \/ \E log \in {"closed_by_client", "read_error"} :
          /\ connections' = [connections EXCEPT ![fd].stage = Close]
          /\ io' = WorkerIo(fd, <<"sock_read">>, log)
          /\ UNCHANGED <<net, parse_thread>>
     \/ \E n \in ReadCounts(connections[fd], net[fd]) :
          LET conn == connections[fd]
              sock == net[fd]
              buf == [i \in 1..BufCap |->
                        IF i > conn.request_len /\ i <= conn.request_len + n
                        THEN sock.stream[sock.rd + (i - conn.request_len)]
                        ELSE conn.request_buffer[i]]
              len == conn.request_len + n
              buffer_slice == SubSeq(buf, 1, len)
          IN /\ net' = [net EXCEPT ![fd].rd = @ + n]
             /\ IF contains_double_newline(buffer_slice)
                THEN /\ connections' = [connections EXCEPT ![fd].request_buffer = buf,
                                                           ![fd].request_len = 0,
                                                           ![fd].stage = Parse]
                     /\ parse_thread' = [at |-> "running", fd |-> fd, data |-> buffer_slice]
                     /\ io' = WorkerIo(fd, <<"sock_read">>, "spawned")
                ELSE /\ connections' = [connections EXCEPT ![fd].request_buffer = buf,
                                                           ![fd].request_len = len]
                     /\ io' = WorkerIo(fd, <<"sock_read">>, "read")
                     /\ UNCHANGED parse_thread
  /\ UNCHANGED <<max_connections, poisoned, pc, closed_fds, queue, total_connections,
                 active_connections, parser, lock, parse_tx>>

\* parse_tx.send((fd, bytes))
Sent(fd, bytes) == Append(parse_tx, [fd |-> fd, bytes |-> bytes])

\* parse_request_in_thread up to its first effect: the panic of the slice, an
\* error message, the message of a HEAD, or the file set on the record
\* (set_file_for_connection; a 500 message when the descriptor is unknown)
parse_request_in_thread ==
  /\ parse_thread.at = "running"
  /\ LET fd == parse_thread.fd
         p == parse_http_request(from_utf8_lossy(parse_thread.data))
     IN CASE p.tag = "Panic" ->
               /\ parse_thread' = [parse_thread EXCEPT !.at = "panicked"]
               /\ io' = WorkerIo(fd, <<>>, "panic")
               /\ UNCHANGED <<connections, parse_tx>>
          [] p.tag = "Err" ->
               /\ parse_tx' = Sent(fd, p.headers)
               /\ parse_thread' = [parse_thread EXCEPT !.at = "done"]
               /\ io' = WorkerIo(fd, <<"channel_send">>, "error_response")
               /\ UNCHANGED connections
          [] p.tag = "Ok" /\ p.is_head ->
               /\ parse_tx' = Sent(fd, p.headers)
               /\ parse_thread' = [parse_thread EXCEPT !.at = "done"]
               /\ io' = WorkerIo(fd, <<"channel_send">>, "parsed")
               /\ UNCHANGED connections
          [] p.tag = "Ok" /\ ~p.is_head ->
               IF fd \in DOMAIN connections
               THEN /\ connections' = [connections EXCEPT ![fd].file = p.file,
                                                          ![fd].file_size = p.file_size,
                                                          ![fd].is_head = p.is_head]
                    /\ parse_thread' = [parse_thread EXCEPT !.at = "attached"]
                    /\ io' = WorkerIo(fd, <<"fs_open">>, "file_set")
                    /\ UNCHANGED parse_tx
               ELSE /\ parse_tx' = Sent(fd, format_error_response(InternalServerError))
                    /\ parse_thread' = [parse_thread EXCEPT !.at = "done"]
                    /\ io' = WorkerIo(fd, <<"fs_open", "channel_send">>, "error_response")
                    /\ UNCHANGED connections
  /\ UNCHANGED <<max_connections, net, poisoned, pc, closed_fds, queue, total_connections,
                 active_connections, parser, lock>>

\* validate_and_prepare_response after the file is set: the 200 message
send_prepared_headers ==
  /\ parse_thread.at = "attached"
  /\ parse_tx' = Sent(parse_thread.fd,
                      parse_http_request(from_utf8_lossy(parse_thread.data)).headers)
  /\ parse_thread' = [parse_thread EXCEPT !.at = "done"]
  /\ io' = WorkerIo(parse_thread.fd, <<"channel_send">>, "parsed")
  /\ UNCHANGED <<max_connections, connections, net, poisoned, pc, closed_fds, queue,
                 total_connections, active_connections, parser, lock>>

ChannelNext ==
  \/ accept_one
  \/ \E fd \in Fds : handle_readable_connection(fd)
  \/ parse_request_in_thread
  \/ send_prepared_headers

ChannelSpec == ParserInit /\ [][ChannelNext]_vars

\* ------------------------------------------------------------ properties
IsWorkerStep == io.thread = "worker" /\ io.fd \in DOMAIN connections

\* the body bytes the peer of fd has received: what follows the header units
BodyOnWire(fd) ==
  SubSeq(net[fd].wire, connections[fd].headers_sent + 1, Len(net[fd].wire))

IsPrefix(a, b) == Len(a) <= Len(b) /\ a = SubSeq(b, 1, Len(a))

Served200(fd) ==
  /\ connections[fd].headers # <<>>
  /\ connections[fd].headers[1] = as_response_line(HttpOk)

\* the steps that end a transfer because all of it is out
CompletedTransfer == {"file_sent_completely", "headers_sent_head"}

\* C1: in every reachable state the index holds at most max_connections records.
C1_IndexWithinCap == Cardinality(DOMAIN connections) <= max_connections

\* an accept was turned away while the index was full
C1_RejectedAtCap ==
  /\ io.log = "rejected"
  /\ Cardinality(DOMAIN connections) = max_connections

\* C2: no step sets the stage of a connection to one that is earlier in
\* Recv < Parse < SendHeaders < SendFile < Close than the stage it has.
C2_StageMovesForward ==
  [][\A fd \in DOMAIN connections \cap DOMAIN connections' :
       net[fd].id = net'[fd].id =>
         StageRank(connections'[fd].stage) >= StageRank(connections[fd].stage)]_vars

\* a connection went through every stage: its file was sent and it is in Close
C2_WentThroughAllStages ==
  \E fd \in DOMAIN connections :
    /\ connections[fd].stage = Close
    /\ connections[fd].headers_sent = Len(connections[fd].headers)
    /\ connections[fd].file_sent = connections[fd].file_size
    /\ connections[fd].file_size > 0

\* the outcomes that are failures of one connection
ConnectionFailures ==
  {"read_error", "write_error", "file_read_error", "closed_by_client",
   "closed_sending_headers", "closed_sending_file", "panic"}

\* C3: a failure of one connection (hostile request bytes, a socket error, a
\* file error) puts that connection in Close, and never ends the loop nor
\* leaves the index unusable.
C3_FailureStaysLocal ==
  /\ pc # "dead"
  /\ ~poisoned
  /\ IsWorkerStep /\ io.log \in ConnectionFailures => connections[io.fd].stage = Close

\* the parser panicked on a request while the index was locked
C3_ParserPanicked == io.thread = "worker" /\ io.log = "panic"

\* C4: when a connection served a 200 response reaches Close because the
\* transfer is complete, its socket has taken |headers| bytes, and file_size
\* more unless the request was a HEAD.
C4_BytesWritten ==
  IsWorkerStep /\ io.log \in CompletedTransfer /\ Served200(io.fd) =>
    /\ connections[io.fd].stage = Close
    /\ Len(net[io.fd].wire) =
         Len(connections[io.fd].headers)
           + (IF connections[io.fd].is_head THEN 0 ELSE connections[io.fd].file_size)

\* a GET of a file of several bytes has just been completed
C4_GetCompleted ==
  /\ IsWorkerStep /\ io.log = "file_sent_completely" /\ Served200(io.fd)
  /\ ~connections[io.fd].is_head
  /\ connections[io.fd].file_size = max_file_size
  /\ Len(net[io.fd].wire) = Len(connections[io.fd].headers) + max_file_size

\* C5: the body bytes written for a GET of a file F are at every point a
\* prefix of F, as many as file_sent counts, and are F when the transfer is
\* complete.
C5_BodyIsPrefix ==
  \A fd \in DOMAIN connections :
    connections[fd].file.open =>
      /\ IsPrefix(BodyOnWire(fd), fs(connections[fd].file.path).body)
      /\ Len(BodyOnWire(fd)) = connections[fd].file_sent
      /\ (IsWorkerStep /\ io.fd = fd /\ io.log = "file_sent_completely" =>
            BodyOnWire(fd) = fs(connections[fd].file.path).body)

\* a transfer of several bytes is complete while another writable task for
\* the same descriptor is still queued
C5_CompleteWithTaskQueued ==
  /\ IsWorkerStep /\ io.log = "file_sent_completely"
  /\ BodyOnWire(io.fd) = FileBody(max_file_size)
  /\ \E i \in 1..Len(queue) : queue[i] = [kind |-> "writable", fd |-> io.fd]

\* a write on fd failed, the peer went away, or the file could not be read
TransferFailed(fd) ==
  /\ IsWorkerStep /\ io.fd = fd
  /\ io.log \in {"write_error", "closed_sending_file", "file_read_error"}

\* C6: under fair scheduling, with a peer that keeps taking bytes and no
\* failing write, a connection in SendFile gets the whole body and reaches
\* Close.
C6_BodyDelivered ==
  \A fd \in Fds :
    (fd \in DOMAIN connections /\ connections[fd].stage = SendFile)
      ~> \/ TransferFailed(fd)
         \/ /\ fd \in DOMAIN connections
            /\ connections[fd].stage = Close
            /\ connections[fd].file_sent = connections[fd].file_size

\* a connection is in SendFile when the loop has ended
C6_SendFileAfterLoopEnded ==
  /\ pc = "dead"
  /\ \E fd \in DOMAIN connections :
       connections[fd].stage = SendFile /\ connections[fd].file_sent < connections[fd].file_size

\* C7: request_len is at most the capacity of the request buffer and
\* headers_sent at most the length of headers.
C7_ReadAndHeaderCounters ==
  \A fd \in DOMAIN connections :
    /\ connections[fd].request_len <= Len(connections[fd].request_buffer)
    /\ Len(connections[fd].request_buffer) = BufCap
    /\ connections[fd].headers_sent <= Len(connections[fd].headers)

\* one connection has filled its request buffer while another has all its
\* headers out
C7_BothCountersAtLimit ==
  /\ \E fd \in DOMAIN connections : connections[fd].request_len = BufCap
  /\ \E fd \in DOMAIN connections :
       /\ connections[fd].headers # <<>>
       /\ connections[fd].headers_sent = Len(connections[fd].headers)

\* C8: file_sent is at most file_size, the length recorded by the parser.
C8_FileSentWithinSize ==
  \A fd \in DOMAIN connections : connections[fd].file_sent <= connections[fd].file_size

\* a partial write of a chunk has been accounted and the file is not yet out
C8_PartialWriteAccounted ==
  /\ IsWorkerStep /\ io.log = "file_partial"
  /\ connections[io.fd].file_sent > 0
  /\ connections[io.fd].file_sent < connections[io.fd].file_size

\* C9: in stage SendFile the file is present, the request is not a HEAD and
\* all of headers has been sent.
C9_SendFileStage ==
  \A fd \in DOMAIN connections :
    connections[fd].stage = SendFile =>
      /\ connections[fd].file.open
      /\ ~connections[fd].is_head
      /\ connections[fd].headers_sent = Len(connections[fd].headers)

\* the last header byte of a GET has just moved a connection to SendFile
C9_EnteredSendFile ==
  /\ IsWorkerStep /\ io.log = "headers_sent_file"
  /\ connections[io.fd].stage = SendFile

\* C10: on a record in stage Close no handler reads the socket, writes to it
\* or reads the file, and the record does not change until it is removed.
C10_CloseIsFinal ==
  [][\A fd \in DOMAIN connections :
       connections[fd].stage = Close =>
         /\ fd \in DOMAIN connections' =>
              connections'[fd] = connections[fd] /\ net'[fd] = net[fd]
         /\ ~(io'.thread = "worker" /\ io'.fd = fd /\ io'.ops # <<>>)]_vars

\* a queued task has run on a record that was already in Close
C10_StaleTaskOnClosed ==
  /\ IsWorkerStep /\ io.log \in {"not_recv", "not_sending"}
  /\ connections[io.fd].stage = Close

\* C11: once the reap phase has processed a descriptor whose record was in
\* Close, the descriptor is no key of the index, and with_connection on a
\* descriptor that is no key runs no closure: it touches no record, no socket
\* and no file.
C11_ReapedIsUnknown ==
  [][/\ io'.thread = "loop" /\ io'.log = "closed" =>
          /\ connections[io'.fd].stage = Close
          /\ io'.fd \notin DOMAIN connections'
     /\ io'.thread = "worker" /\ io'.fd \notin DOMAIN connections =>
          /\ connections' = connections
          /\ net' = net
          /\ io'.ops = <<>>
          /\ io'.log \in {"unknown_fd", "lock_poisoned"}]_vars

\* a task queued for a connection has run after the reap removed its record
C11_TaskAfterReap ==
  /\ io.thread = "worker" /\ io.log = "unknown_fd"
  /\ io.fd \notin DOMAIN connections

\* C13: add_connection admits exactly when the index holds fewer than
\* max_connections records at the call; the index then gains one record, under
\* the descriptor of the socket, as Connection::new makes it, and keeps the
\* others as they were.
C13_AdmitBelowCap ==
  [][io'.thread = "loop" /\ io'.log \in {"accepted", "rejected"} =>
       /\ io'.log = "accepted" <=> Cardinality(DOMAIN connections) < max_connections
       /\ io'.log = "accepted" =>
            /\ DOMAIN connections' = DOMAIN connections \cup {io'.fd}
            /\ Cardinality(DOMAIN connections') = Cardinality(DOMAIN connections) + 1
            /\ \A other \in DOMAIN connections : connections'[other] = connections[other]
            /\ connections'[io'.fd].stage = Recv
            /\ connections'[io'.fd].request_len = 0
            /\ connections'[io'.fd].headers = <<>>
            /\ connections'[io'.fd].headers_sent = 0
            /\ ~connections'[io'.fd].file.open
            /\ connections'[io'.fd].file_sent = 0
            /\ ~connections'[io'.fd].is_head]_vars

\* a socket has been admitted as the last one the cap allows, next to a
\* connection that is already being served
C13_AdmittedLastSlot ==
  /\ io.thread = "loop" /\ io.log = "accepted"
  /\ max_connections = 2
  /\ Cardinality(DOMAIN connections) = max_connections
  /\ connections[io.fd] = NewConnection
  /\ \E other \in DOMAIN connections : connections[other].stage = SendFile

\* C14: a socket accepted while the index holds max_connections records is
\* closed; the index, every record and every admitted socket stay as they
\* were, and neither counter of the loop is incremented.
C14_RejectedAtCapFrame ==
  [][io'.thread = "loop" /\ io'.log = "rejected" =>
       /\ Cardinality(DOMAIN connections) >= max_connections
       /\ io'.ops = <<"accept", "sock_close">>
       /\ io'.fd \notin DOMAIN net'
       /\ connections' = connections
       /\ net' = net
       /\ total_connections' = total_connections
       /\ active_connections' = active_connections]_vars

\* a socket was turned away while a record of the full index was mid-transfer
C14_RejectedWhileServing ==
  /\ io.thread = "loop" /\ io.log = "rejected"
  /\ active_connections = max_connections
  /\ total_connections = max_connections
  /\ \E fd \in DOMAIN connections :
       connections[fd].stage = SendFile /\ connections[fd].file_sent > 0

\* C15: the descriptors of the open admitted sockets are exactly the keys of
\* the index, one record each, and an admission never lands on a key that is
\* present: it replaces and drops no record, also when the descriptor number
\* was used by a connection that is closed.
C15_OneRecordPerDescriptor ==
  [][/\ DOMAIN connections' = DOMAIN net'
     /\ \A a, b \in DOMAIN net' : net'[a].id = net'[b].id => a = b
     /\ io'.thread = "loop" /\ io'.log = "accepted" =>
          /\ io'.fd \notin DOMAIN connections
          /\ \A other \in DOMAIN connections :
               /\ other \in DOMAIN connections'
               /\ connections'[other] = connections[other]
               /\ net'[other] = net[other]]_vars

\* the second connection has been admitted under the descriptor number of
\* the first, which was reaped
C15_DescriptorReused ==
  /\ io.thread = "loop" /\ io.log = "accepted"
  /\ io.fd = 1
  /\ net[1].id = 2
  /\ DOMAIN connections = {1}

\* C16: get_connections_for_select gives two disjoint lists of keys of the
\* index: a descriptor is in the readable one iff its stage is Recv or Parse,
\* in the writable one iff its stage is SendHeaders or SendFile, in neither iff
\* its stage is Close; the tasks the loop queues come from these lists.
C16_ClassifyByStage ==
  [][/\ read_fds \cap write_fds = {}
     /\ read_fds \cup write_fds \subseteq DOMAIN connections
     /\ \A fd \in DOMAIN connections :
          /\ fd \in read_fds <=> connections[fd].stage \in {Recv, Parse}
          /\ fd \in write_fds <=> connections[fd].stage \in {SendHeaders, SendFile}
          /\ fd \notin read_fds \cup write_fds <=> connections[fd].stage = Close
     /\ io'.thread = "loop" /\ io'.log = "dispatched" =>
          \A i \in (Len(queue) + 1)..Len(queue') :
            /\ queue'[i].fd \in DOMAIN connections
            /\ queue'[i].kind = "readable" =>
                 connections[queue'[i].fd].stage \in {Recv, Parse}
            /\ queue'[i].kind = "writable" =>
                 connections[queue'[i].fd].stage \in {SendHeaders, SendFile}]_vars

\* the index holds a record in Recv and one in SendFile, and a task has been
\* queued for each
C16_BothListsDispatched ==
  /\ io.thread = "loop" /\ io.log = "dispatched"
  /\ \E r \in read_fds, w \in write_fds :
       /\ connections[r].stage = Recv
       /\ connections[w].stage = SendFile
       /\ \E i, j \in 1..Len(queue) :
            queue[i] = [kind |-> "readable", fd |-> r] /\ queue[j] = [kind |-> "writable", fd |-> w]

\* C17: a handler whose socket read or write gives WouldBlock returns with
\* the record as it was: stage, request_len, headers_sent, file_sent, and in
\* SendFile the read position of the file; nothing reaches the peer.
C17_WouldBlockFrame ==
  [][io'.thread = "worker" /\ io'.log = "would_block" =>
       /\ io'.fd \in DOMAIN connections
       /\ connections'[io'.fd].stage = connections[io'.fd].stage
       /\ connections'[io'.fd].request_len = connections[io'.fd].request_len
       /\ connections'[io'.fd].headers_sent = connections[io'.fd].headers_sent
       /\ connections'[io'.fd].file_sent = connections[io'.fd].file_sent
       /\ connections'[io'.fd].file.pos = connections[io'.fd].file.pos
       /\ connections' = connections
       /\ net' = net]_vars

\* a write of file bytes gave WouldBlock in the middle of a transfer and the
\* position is back where the bytes sent so far end
C17_WouldBlockMidFile ==
  /\ IsWorkerStep /\ io.log = "would_block"
  /\ io.ops = <<"file_read", "sock_write", "file_seek">>
  /\ connections[io.fd].stage = SendFile
  /\ connections[io.fd].file_sent > 0
  /\ connections[io.fd].file.pos = connections[io.fd].file_sent

\* the request buffer of fd is full, holds no end-of-headers marker, and the
\* record waits for more
FullWithoutMarker(fd) ==
  /\ connections[fd].stage = Recv
  /\ connections[fd].request_len = BufCap
  /\ ~contains_double_newline(connections[fd].request_buffer)

\* the peer of fd closed or reset the connection
PeerClosed(fd) ==
  io.thread = "worker" /\ io.fd = fd /\ io.log \in {"closed_by_client", "read_error"}

\* C19: a connection whose received bytes fill the request buffer without an
\* end-of-headers marker stays in Recv, neither parsed nor closed by the
\* server, until its peer closes.
C19_FullBufferStaysInRecv ==
  [][\A fd \in DOMAIN connections :
       FullWithoutMarker(fd) =>
         /\ fd \in DOMAIN connections'
         /\ connections'[fd].stage = Recv \/ PeerClosed(fd)']_vars

\* the server has closed a connection with a full buffer whose peer is still
\* sending
C19_ClosedByZeroLengthRead ==
  /\ IsWorkerStep /\ io.log = "zero_length_read"
  /\ connections[io.fd].stage = Close
  /\ connections[io.fd].request_len = BufCap
  /\ net[io.fd].rd < Len(net[io.fd].stream)

SocketCalls == {"sock_read", "sock_write"}

\* C20: pool threads never read from or write to a socket; every socket read
\* and write is made by the event-loop thread.
C20_WorkersLeaveSocketsAlone ==
  /\ io.thread = "worker" => \A i \in 1..Len(io.ops) : io.ops[i] \notin SocketCalls
  /\ (\E i \in 1..Len(io.ops) : io.ops[i] \in SocketCalls) => io.thread = "loop"

\* a pool thread has written file bytes to a socket
C20_WorkerWroteToSocket ==
  /\ IsWorkerStep /\ io.log = "file_chunk"
  /\ \E i \in 1..Len(io.ops) : io.ops[i] = "sock_write"
  /\ net[io.fd].wire # <<>>

\* the same request with the method GET in place of HEAD
AsGet(bytes) == <<"G", "E", "T">> \o SubSeq(bytes, 5, Len(bytes))

IsHead(bytes) == Len(bytes) >= 4 /\ SubSeq(bytes, 1, 4) = <<"H", "E", "A", "D">>

\* what the parser makes of the peer's request, and of the same request as a GET
ParsedAs(bytes) == parse_http_request(from_utf8_lossy(bytes))

\* C18: a HEAD for an existing regular file within max_file_size gets the
\* header bytes a GET for that file gets, installs no file handle and goes
\* from SendHeaders to Close without SendFile and without a body byte.
C18_HeadLikeGet ==
  \A fd \in DOMAIN connections :
    /\ connections[fd].headers # <<>>
    /\ IsHead(net[fd].stream)
    /\ ParsedAs(net[fd].stream).tag = "Ok"
    => /\ connections[fd].headers = ParsedAs(AsGet(net[fd].stream)).headers
       /\ connections[fd].is_head
       /\ ~connections[fd].file.open
       /\ connections[fd].stage \in {SendHeaders, Close}
       /\ connections[fd].file_sent = 0
       /\ IsPrefix(net[fd].wire, connections[fd].headers)

\* C18, for the files a GET is answered 200 for (the server can open them):
\* the HEAD gets the header bytes of the GET, installs no file handle and
\* goes from SendHeaders to Close without SendFile and without a body byte.
C18_HeadLikeGetOfServedFile ==
  \A fd \in DOMAIN connections :
    /\ connections[fd].headers # <<>>
    /\ IsHead(net[fd].stream)
    /\ ParsedAs(net[fd].stream).tag = "Ok"
    /\ ParsedAs(AsGet(net[fd].stream)).tag = "Ok"
    => /\ connections[fd].headers = ParsedAs(AsGet(net[fd].stream)).headers
       /\ ParsedAs(AsGet(net[fd].stream)).file.open
       /\ connections[fd].is_head
       /\ ~connections[fd].file.open
       /\ connections[fd].stage \in {SendHeaders, Close}
       /\ connections[fd].file_sent = 0
       /\ IsPrefix(net[fd].wire, connections[fd].headers)

\* a HEAD for a file that a GET is served has been answered: all the headers
\* of the GET are out and nothing else
C18_HeadAnswered ==
  /\ IsWorkerStep /\ io.log = "headers_sent_head"
  /\ connections[io.fd].is_head
  /\ connections[io.fd].stage = Close
  /\ ParsedAs(AsGet(net[io.fd].stream)).tag = "Ok"
  /\ net[io.fd].wire = ParsedAs(AsGet(net[io.fd].stream)).headers

\* C12: under fair scheduling, every admitted connection whose peer sends a
\* complete header section and keeps accepting bytes reaches Close and is then
\* removed from the index by a reap: in the end no socket carries its number.
C12_ServedThenReaped ==
  \A id \in 1..MaxTotal :
    (\E fd \in DOMAIN connections :
       net[fd].id = id /\ contains_double_newline(net[fd].stream))
      ~> (\A fd \in DOMAIN connections : net[fd].id # id)

\* the loop has ended and a connection whose peer sent a complete header
\* section is left in Parse, in the index
C12_LeftInParse ==
  /\ pc = "dead"
  /\ \E fd \in DOMAIN connections :
       /\ connections[fd].stage = Parse
       /\ contains_double_newline(net[fd].stream)

\* the file-system calls of parse_http_request
FsCalls == {"fs_exists", "fs_is_file", "fs_metadata", "fs_open"}

\* the calls made with the index mutex held: those of the closure that
\* with_connection runs, which is all a pool thread does with a record
CallsUnderMutex == IF io.thread = "worker" THEN {io.ops[i] : i \in 1..Len(io.ops)} ELSE {}

\* C21: no thread makes a file-system call (existence check, metadata lookup,
\* file open) while it holds the index mutex.
C21_NoFsCallUnderMutex == CallsUnderMutex \cap FsCalls = {}

\* a pool thread has parsed a GET inside the closure: it checked, sized and
\* opened the file with the mutex held
C21_ParsedUnderMutex ==
  /\ IsWorkerStep /\ io.log = "parsed"
  /\ FsCalls \subseteq CallsUnderMutex
  /\ connections[io.fd].file.open

\* C23: a record enters SendHeaders, with its headers installed, only in a
\* step of the event loop (the one that takes the parse's completion message).
C23_LoopInstallsHeaders ==
  [][\A fd \in DOMAIN connections \cap DOMAIN connections' :
       connections[fd].stage # SendHeaders /\ connections'[fd].stage = SendHeaders
         => io'.thread = "loop"]_vars

\* a pool thread has read the end of a request, parsed it and put the record
\* in SendHeaders with the response installed, all in its one closure
C23_WorkerInstalledHeaders ==
  /\ IsWorkerStep /\ io.log = "error_response"
  /\ connections[io.fd].stage = SendHeaders
  /\ connections[io.fd].headers = format_error_response(NotFound)
  /\ connections[io.fd].headers_sent = 0

\* the tokens of the first line of the request handed to the parser
RequestTokens == split_whitespace(first_line_of(from_utf8_lossy(request_data)))

\* the file a request path names: the path without its first character, under
\* the document root ("/" names index.html)
TargetOf(token) ==
  fs(join(doc_root, IF Str(token) = "/" THEN from_utf8_lossy(<<"i", "n", "d", "e", "x", ".", "h", "t", "m", "l">>)
                    ELSE Tail(token)))

\* the first rule of the precedence that applies to a request of two tokens or
\* more, and its status
FirstRule(method, token) ==
  LET entry == TargetOf(token)
  IN IF contains_dotdot(token) THEN Forbidden
     ELSE IF ~entry.exists THEN NotFound
     ELSE IF ~entry.is_file THEN Forbidden
     ELSE IF ~entry.meta_ok THEN InternalServerError
     ELSE IF Len(entry.body) > max_file_size THEN PayloadTooLarge
     ELSE IF method # "HEAD" /\ ~entry.open_ok THEN InternalServerError
     ELSE HttpOk

\* the parser returned a response that starts with the status line of status
Answers(status) ==
  /\ parse_result.tag = (IF status = HttpOk THEN "Ok" ELSE "Err")
  /\ parse_result.headers[1] = as_response_line(status)

\* C24: the parser's outcome is 400 for fewer than two tokens, and otherwise
\* the first that applies of: '..' in the path 403, no such path 404, not a
\* regular file 403, no metadata 500, too long 413, open failed (not HEAD)
\* 500, and 200.
C24_ParserPrecedence ==
  parse_result # NoResult =>
    IF Len(RequestTokens) < 2 THEN Answers(BadRequest)
    ELSE Answers(FirstRule(Str(RequestTokens[1]), RequestTokens[2]))

\* the parser was given two tokens with no '..' in the path and returned no
\* response at all
C24_NoOutcome ==
  /\ parse_result # NoResult
  /\ Len(RequestTokens) >= 2
  /\ ~contains_dotdot(RequestTokens[2])
  /\ parse_result.tag = "Panic"

\* the request handed to the parser asks for a regular file that exists under
\* the document root: two tokens or more, the second "/" and the file's name
\* ("/" alone names index.html)
AsksForRegularFile ==
  /\ parse_result # NoResult
  /\ Len(RequestTokens) >= 2
  /\ RequestTokens[2][1].c = "/"
  /\ TargetOf(RequestTokens[2]).exists
  /\ TargetOf(RequestTokens[2]).is_file

RequestedLength == Len(TargetOf(RequestTokens[2]).body)

\* C25 as stated: for an existing regular file the answer is 200 when its
\* length is at most max_file_size and 413 when it is more.
C25_SizeDecides ==
  AsksForRegularFile =>
    IF RequestedLength <= max_file_size THEN Answers(HttpOk) ELSE Answers(PayloadTooLarge)

\* the parser can serve the file the request asks for, its size apart: no '..'
\* in the path, the metadata can be read, and the file can be opened if the
\* request is not a HEAD and the file is not too long to be opened at all
Servable ==
  /\ ~contains_dotdot(RequestTokens[2])
  /\ TargetOf(RequestTokens[2]).meta_ok
  /\ \/ Str(RequestTokens[1]) = "HEAD"
     \/ TargetOf(RequestTokens[2]).open_ok
     \/ RequestedLength > max_file_size

\* C25, for a file the parser can otherwise serve: 200 when its length is at
\* most max_file_size, 413 when it is max_file_size + 1 or more.
C25_SizeDecidesIfServable ==
  AsksForRegularFile /\ Servable =>
    IF RequestedLength <= max_file_size THEN Answers(HttpOk) ELSE Answers(PayloadTooLarge)

\* a GET for a file of exactly max_file_size bytes has been answered 200 and
\* the file is open
C25_AtTheLimit ==
  /\ AsksForRegularFile /\ Servable
  /\ RequestedLength = max_file_size
  /\ Answers(HttpOk)
  /\ parse_result.file.open

\* the bytes the closure received: what it read of request_data
ReceivedPrefix == SubSeq(request_data, 1, recv_result.sock.rd)

\* CR LF CR LF or LF LF somewhere in bytes
HasMarker(bytes) ==
  \E i \in 1..Len(bytes) :
    \/ i + 1 <= Len(bytes) /\ SubSeq(bytes, i, i + 1) = <<"\n", "\n">>
    \/ i + 3 <= Len(bytes) /\ SubSeq(bytes, i, i + 3) = <<"\r", "\n", "\r", "\n">>

\* the outcomes of the closure in which the parser was run
ParserRan == {"parsed", "error_response", "panic"}

\* C26: a read that brings bytes leaves Recv and runs the parser exactly when
\* the bytes received contain CR LF CR LF or LF LF, wherever the marker is and
\* also when it ends a buffer that is completely full.
C26_MarkerDetected ==
  recv_result # NoResult /\ recv_result.sock.rd > 0 =>
    /\ HasMarker(ReceivedPrefix) <=> recv_result.log \in ParserRan
    /\ HasMarker(ReceivedPrefix) <=> recv_result.conn.stage # Recv
    /\ ~HasMarker(ReceivedPrefix) =>
         /\ recv_result.log = "read"
         /\ recv_result.conn.request_len = recv_result.sock.rd

\* a request that fills the buffer exactly and ends with CR LF CR LF has been
\* received in one read and parsed
C26_MarkerEndsFullBuffer ==
  /\ recv_result # NoResult
  /\ Len(request_data) = BufCap
  /\ recv_result.sock.rd = BufCap
  /\ SubSeq(request_data, BufCap - 3, BufCap) = <<"\r", "\n", "\r", "\n">>
  /\ recv_result.log = "parsed"
  /\ recv_result.conn.stage = SendHeaders

ErrorStatuses == {BadRequest, Forbidden, NotFound, PayloadTooLarge, InternalServerError}

\* the header lines of an error response that announces n bytes of body
ErrorHeaderLines(n) ==
  "Content-Type: text/html\r\nContent-Length: " \o ToString(n)
    \o "\r\nConnection: close\r\n\r\n"

\* C27: every error response of the parser has the status line of 400, 403,
\* 404, 413 or 500, then Content-Type: text/html, a Content-Length that is the
\* length of the HTML body, Connection: close and the blank line, then the body.
C27_ErrorResponseShape ==
  parse_result # NoResult /\ parse_result.tag = "Err" =>
    /\ Len(parse_result.headers) = 3
    /\ \E status \in ErrorStatuses :
         /\ parse_result.headers[1] = as_response_line(status)
         /\ parse_result.headers[3] = error_body(status)
    /\ parse_result.headers[2] = ErrorHeaderLines(Len(parse_result.headers[3]))
    /\ Len(parse_result.headers[3]) > 0

\* a 500 has been produced: its body is 60 bytes long and it says so
C27_ServerErrorProduced ==
  /\ parse_result # NoResult /\ parse_result.tag = "Err"
  /\ parse_result.headers[1] = as_response_line(InternalServerError)
  /\ parse_result.headers[2] =
       "Content-Type: text/html\r\nContent-Length: 60\r\nConnection: close\r\n\r\n"

\* the request handed to the parser is a GET for a path under the document
\* root that does not exist
GetOfMissingPath ==
  /\ parse_result # NoResult
  /\ Len(RequestTokens) >= 2
  /\ Str(RequestTokens[1]) = "GET"
  /\ RequestTokens[2][1].c = "/"
  /\ ~contains_dotdot(RequestTokens[2])
  /\ ~TargetOf(RequestTokens[2]).exists

\* the 404 response that announces n bytes of body
NotFoundResponse(n) ==
  << "HTTP/1.1 404 Not Found\r\n",
     "Content-Type: text/html\r\nContent-Length: " \o ToString(n)
       \o "\r\nConnection: close\r\n\r\n",
     "<html><body><h1>404 Not Found</h1></body></html>" >>

\* C28 as stated: a GET for a path that does not exist is answered with the
\* 404 status line, Content-Type: text/html, Content-Length: 46, Connection:
\* close and the body <html><body><h1>404 Not Found</h1></body></html>.
C28_NotFoundAnnounces46 == GetOfMissingPath => parse_result.headers = NotFoundResponse(46)

\* C28 with the length the body has: the same response with Content-Length: 48.
C28_NotFoundAnnounces48 ==
  GetOfMissingPath =>
    /\ parse_result.tag = "Err"
    /\ parse_result.headers = NotFoundResponse(48)
    /\ Len(parse_result.headers[3]) = 48
    /\ ~parse_result.file.open

\* GET /n, for which there is no file, has been answered
C28_MissingFileAnswered ==
  /\ GetOfMissingPath
  /\ request_data = <<"G", "E", "T", " ", "/", "n", "\r", "\n", "\r", "\n">>
  /\ parse_result.headers[1] = "HTTP/1.1 404 Not Found\r\n"

\* the request handed to the parser with GET in place of its method (the
\* method is the first token; every request of two tokens starts with it)
FirstSpace(bytes) ==
  CHOOSE i \in 1..Len(bytes) : bytes[i] = " " /\ \A j \in 1..(i - 1) : bytes[j] # " "

WithGet(bytes) == <<"G", "E", "T">> \o SubSeq(bytes, FirstSpace(bytes), Len(bytes))

\* C29: a request of two tokens or more whose method is not exactly HEAD gets
\* from the parser what the same request with the method GET gets (the file
\* opened and a 200 when the file can be served), and no response is a 405.
C29_AnyMethodIsGet ==
  parse_result # NoResult =>
    /\ parse_result.tag # "Panic" =>
         parse_result.headers[1] # "HTTP/1.1 405 Method Not Allowed\r\n"
    /\ Len(RequestTokens) >= 2 /\ Str(RequestTokens[1]) # "HEAD" =>
         /\ parse_result = ParsedAs(WithGet(request_data))
         /\ (parse_result.tag # "Panic" /\ FirstRule("GET", RequestTokens[2]) = HttpOk) =>
              /\ Answers(HttpOk)
              /\ parse_result.file.open
              /\ ~parse_result.is_head

\* a request with the method head, in lower case, has been served as a GET:
\* 200 and the file open
C29_LowerCaseHeadServed ==
  /\ parse_result # NoResult
  /\ Len(RequestTokens) >= 2
  /\ Str(RequestTokens[1]) = "head"
  /\ parse_result.tag = "Ok"
  /\ parse_result.file.open
  /\ parse_result.file_size = max_file_size

\* the response files that are open: a File lives in the record it was
\* installed on and nowhere else
OpenFileHandles == {fd \in DOMAIN connections : connections[fd].file.open}

Calls(step) == {step.ops[i] : i \in 1..Len(step.ops)}

C22_MutationsUnderMutex ==
  [][ /\ (connections' # connections) =>
           /\ holder \in Threads
           /\ at[holder] = "locked"
           /\ at'[holder] = "idle"
           /\ holder' = NoThread
      /\ \A t \in Threads : (at'[t] = "locked") <=> (holder' = t) ]_vars

\* a pool thread runs a handler of a connection while the other pool thread,
\* with a task of the same connection, and the loop both wait for the mutex
C22_SecondHandlerWaits ==
  \E t1 \in Workers, t2 \in Workers :
    /\ t1 # t2
    /\ holder = t1
    /\ at[t1] = "locked"
    /\ at[t2] = "waiting"
    /\ job[t1].fd = job[t2].fd
    /\ job[t1].fd \in DOMAIN connections
    /\ at[LoopThread] = "waiting"

\* C31: a write in SendHeaders that the socket accepts adds the bytes it took
\* to headers_sent; when headers_sent reaches the length of headers the stage
\* becomes Close if is_head is true or no file is attached and SendFile
\* otherwise, and while headers_sent is below the length the stage stays
\* SendHeaders.
C31_HeadersWriteOutcome ==
  [][\A fd \in DOMAIN connections \cap DOMAIN connections' :
       (/\ net[fd].id = net'[fd].id
        /\ connections[fd].stage = SendHeaders
        /\ Len(net'[fd].wire) > Len(net[fd].wire)) =>
         /\ connections'[fd].headers_sent - connections[fd].headers_sent
              = Len(net'[fd].wire) - Len(net[fd].wire)
         /\ connections'[fd].headers = connections[fd].headers
         /\ IF connections'[fd].headers_sent >= Len(connections[fd].headers)
            THEN connections'[fd].stage =
                   (IF connections[fd].is_head \/ ~connections[fd].file.open
                    THEN Close ELSE SendFile)
            ELSE connections'[fd].stage = SendHeaders]_vars

\* the last bytes of a response to a request that is not a HEAD and has no
\* file (an error response) just went out and the stage is Close, while another
\* connection has part of its headers out and is in SendHeaders
C31_ErrorHeadersCompleted ==
  /\ IsWorkerStep /\ io.log = "headers_sent_head"
  /\ ~connections[io.fd].is_head
  /\ ~connections[io.fd].file.open
  /\ connections[io.fd].stage = Close
  /\ connections[io.fd].headers_sent = Len(connections[io.fd].headers)
  /\ \E fd \in DOMAIN connections :
       /\ connections[fd].stage = SendHeaders
       /\ connections[fd].headers_sent > 0

\* the status lines of the error responses
ErrorLines == {as_response_line(status) : status \in ErrorStatuses}

GotErrorResponse(fd) ==
  /\ connections[fd].headers # <<>>
  /\ connections[fd].headers[1] \in ErrorLines

\* C32: a connection that was given an error response (400, 403, 404, 413 or
\* 500) has no file attached and is never in SendFile: it is in SendHeaders
\* while bytes of the error buffer are left, in Close when all are written,
\* and nothing but the error buffer goes to its socket.
C32_ErrorResponseThenClose ==
  \A fd \in DOMAIN connections :
    GotErrorResponse(fd) =>
      /\ ~connections[fd].file.open
      /\ connections[fd].file_sent = 0
      /\ connections[fd].stage \in {SendHeaders, Close}
      /\ connections[fd].headers_sent = Len(connections[fd].headers) =>
           connections[fd].stage = Close
      /\ net[fd].wire = SubSeq(connections[fd].headers, 1, connections[fd].headers_sent)

\* the whole 413 response of one connection is out and it is in Close, while
\* another connection has part of its 500 response out
C32_TwoErrorsAnswered ==
  \E fd1 \in DOMAIN connections, fd2 \in DOMAIN connections :
    /\ connections[fd1].headers = format_error_response(PayloadTooLarge)
    /\ connections[fd1].stage = Close
    /\ net[fd1].wire = connections[fd1].headers
    /\ connections[fd2].headers = format_error_response(InternalServerError)
    /\ connections[fd2].stage = SendHeaders
    /\ connections[fd2].headers_sent > 0

\* C33: a read of n > 0 bytes in Recv is put after the request_len bytes
\* already received; when the received prefix has an end-of-headers marker the
\* closure sets request_len to 0 and the stage to Parse (and goes on to parse:
\* the record leaves the call in Parse or SendHeaders), and when it has none
\* the stage stays Recv and request_len is n more, the bytes kept in the buffer.
C33_ReadThenMarker ==
  [][\A fd \in DOMAIN connections \cap DOMAIN connections' :
       (net[fd].id = net'[fd].id /\ net'[fd].rd > net[fd].rd) =>
         LET n == net'[fd].rd - net[fd].rd
             len == connections[fd].request_len + n
             prefix == SubSeq(connections'[fd].request_buffer, 1, len)
         IN /\ connections[fd].stage = Recv
            /\ len <= BufCap
            /\ prefix = SubSeq(connections[fd].request_buffer, 1, connections[fd].request_len)
                          \o SubSeq(net[fd].stream, net[fd].rd + 1, net'[fd].rd)
            /\ IF HasMarker(prefix)
               THEN /\ connections'[fd].stage \in {Parse, SendHeaders}
                    /\ connections'[fd].request_len = 0
               ELSE /\ connections'[fd].stage = Recv
                    /\ connections'[fd].request_len = len]_vars

\* a read left a connection in Recv with the bytes it has so far, while the
\* request of another connection was read to its marker and request_len is 0
C33_PartialAndWholeRequest ==
  /\ IsWorkerStep /\ io.log = "read"
  /\ connections[io.fd].stage = Recv
  /\ connections[io.fd].request_len = net[io.fd].rd
  /\ net[io.fd].rd > 0
  /\ \E fd \in DOMAIN connections :
       /\ connections[fd].stage = SendHeaders
       /\ connections[fd].request_len = 0
       /\ net[fd].rd = Len(net[fd].stream)

\* a read that returned 0 bytes or an error other than WouldBlock
ReadFailures == {"closed_by_client", "zero_length_read", "read_error"}

\* a write that returned 0 bytes or an error other than WouldBlock
WriteFailures == {"closed_sending_headers", "closed_sending_file", "write_error"}

\* C34: when the read of a connection in Recv returns 0 bytes or an error
\* other than WouldBlock, or the write of a connection in SendHeaders or
\* SendFile does, that step puts the connection in Close and writes nothing,
\* and no later step writes to the socket of a connection in Close.
C34_SocketFailureCloses ==
  [][/\ (io'.thread = "worker" /\ io'.log \in ReadFailures \cup WriteFailures) =>
          /\ io'.fd \in DOMAIN connections \cap DOMAIN connections'
          /\ io'.log \in ReadFailures => connections[io'.fd].stage = Recv
          /\ io'.log \in WriteFailures => connections[io'.fd].stage \in {SendHeaders, SendFile}
          /\ connections'[io'.fd].stage = Close
          /\ net'[io'.fd].wire = net[io'.fd].wire
     /\ \A fd \in DOMAIN connections \cap DOMAIN connections' :
          connections[fd].stage = Close =>
            /\ connections'[fd].stage = Close
            /\ net'[fd].wire = net[fd].wire]_vars

\* the peer went away in the middle of a body: the connection is in Close with
\* part of the file out, and a writable task for it is still queued
C34_ClosedMidBody ==
  /\ IsWorkerStep /\ io.log = "closed_sending_file"
  /\ connections[io.fd].stage = Close
  /\ connections[io.fd].file_sent > 0
  /\ connections[io.fd].file_sent < connections[io.fd].file_size
  /\ \E i \in 1..Len(queue) : queue[i] = [kind |-> "writable", fd |-> io.fd]

\* C35: a connection in SendFile has its file positioned at file_sent: the
\* seek after a partial write of w out of r bytes read takes back r - w, the
\* seek after WouldBlock takes back r.
C35_FilePositionIsFileSent ==
  \A fd \in DOMAIN connections :
    connections[fd].stage = SendFile =>
      /\ connections[fd].file.open
      /\ connections[fd].file.pos = connections[fd].file_sent

\* two bytes were read at position 1 and one of them written: the file is
\* back at position 2 with two bytes sent, and the connection is in SendFile
C35_SeekBackAfterPartialWrite ==
  /\ IsWorkerStep /\ io.log = "file_partial"
  /\ io.ops = <<"file_read", "sock_write", "file_seek">>
  /\ connections[io.fd].stage = SendFile
  /\ connections[io.fd].file.pos = 2
  /\ connections[io.fd].file_sent = 2

\* C36: a task queued for a descriptor acts only on the connection that was
\* under the descriptor when the task was queued.  When a connection has just
\* been admitted under fd, every task for fd in the queue is from a snapshot
\* taken before it existed, so the step after the admission is no worker step
\* that reads from, writes to or changes that connection.
C36_TaskKeepsItsConnection ==
  [][~(/\ io.thread = "loop" /\ io.log = "accepted"
       /\ io'.thread = "worker" /\ io'.fd = io.fd
       /\ io.fd \in DOMAIN connections \cap DOMAIN connections'
       /\ \/ io'.ops # <<>>
          \/ connections'[io.fd] # connections[io.fd])]_vars

\* the second connection has just been admitted under the descriptor of the
\* first, and a readable task queued for the first is still in the queue
C36_StaleTaskAtAdmission ==
  /\ io.thread = "loop" /\ io.log = "accepted"
  /\ io.fd \in DOMAIN connections
  /\ net[io.fd].id = 2
  /\ connections[io.fd] = NewConnection
  /\ \E i \in 1..Len(queue) : queue[i] = [kind |-> "readable", fd |-> io.fd]

\* C37: only records in Close are removed from the index, by the loop; a
\* descriptor that the reap phase has listed and not yet removed has its
\* record in Close whatever handler tasks run in between.
C37_ReapsOnlyClosed ==
  [][/\ \A fd \in DOMAIN connections \ DOMAIN connections' :
          /\ connections[fd].stage = Close
          /\ fd \in closed_fds
          /\ io'.thread = "loop"
     /\ \A fd \in closed_fds' :
          /\ fd \in DOMAIN connections'
          /\ connections'[fd].stage = Close]_vars

\* a handler task has run on a record that the reap phase has listed and not
\* yet removed, while another listed record has been removed already
C37_TaskBetweenListAndRemoval ==
  /\ pc = "reap"
  /\ IsWorkerStep /\ io.log \in {"not_recv", "not_sending"}
  /\ io.fd \in closed_fds
  /\ connections[io.fd].stage = Close
  /\ active_connections = 1
  /\ total_connections = 2

\* C38: when a cycle of the loop has ended (the loop is about to accept
\* again), active_connections is the number of records in the index; and the
\* counter, which the reap phase decrements, is never below zero.
C38_CounterIsIndexSize ==
  /\ active_connections >= 0
  /\ pc = "accept" => active_connections = Cardinality(DOMAIN connections)

\* a cycle has ended with the removal of one of two admitted connections: one
\* record is left and the counter is 1
C38_CycleEndedWithReap ==
  /\ pc = "accept"
  /\ io.thread = "loop" /\ io.log = "closed"
  /\ total_connections = 2
  /\ active_connections = 1
  /\ Cardinality(DOMAIN connections) = 1

\* a task that no longer applies: its descriptor is no key, or its record is
\* not in a stage the handler acts on
NoLongerApplies(task) ==
  \/ task.fd \notin DOMAIN connections
  \/ task.kind = "readable" /\ connections[task.fd].stage # Recv
  \/ task.kind = "writable" /\ connections[task.fd].stage \notin {SendHeaders, SendFile}

\* the queue without its i-th task
QueueWithout(i) == SubSeq(queue, 1, i - 1) \o SubSeq(queue, i + 1, Len(queue))

\* C39: a pool thread that runs a task that no longer applies (a readable
\* task on an unknown descriptor or on a record not in Recv, a writable task
\* on an unknown descriptor or on a record in neither SendHeaders nor SendFile)
\* changes no record and no socket and makes no system call.
C39_StaleTaskDoesNothing ==
  [][\A i \in 1..Len(queue) :
       (/\ io'.thread = "worker"
        /\ queue' = QueueWithout(i)
        /\ io'.fd = queue[i].fd
        /\ NoLongerApplies(queue[i])) =>
         /\ connections' = connections
         /\ net' = net
         /\ io'.ops = <<>>]_vars

\* a descriptor was dispatched twice as readable: the first task parsed the
\* request, the second has just found the record in SendHeaders
C39_SecondReadableTaskRan ==
  /\ IsWorkerStep /\ io.log = "not_recv" /\ io.ops = <<>>
  /\ connections[io.fd].stage = SendHeaders
  /\ connections[io.fd].headers_sent = 0
  /\ net[io.fd].wire = <<>>

\* the parse thread has returned or has been unwound
ParseEnded == parse_thread.at \in {"done", "panicked"}

\* the messages on the channel for fd
CompletionsFor(fd) == {i \in 1..Len(parse_tx) : parse_tx[i].fd = fd}

\* C40: a parse on its own thread sends exactly one message (fd, bytes) on the
\* channel whatever the outcome, after the file is set on the record when the
\* answer is a 200 with a body; a connection in Parse has its parse thread
\* still at work or its message on the channel.
C40_OneCompletionPerParse ==
  /\ Len(parse_tx) <= 1
  /\ ParseEnded => Cardinality(CompletionsFor(parse_thread.fd)) = 1
  /\ \A i \in 1..Len(parse_tx) :
       /\ parse_tx[i].fd \in DOMAIN connections
       /\ (/\ parse_tx[i].bytes[1] = as_response_line(HttpOk)
           /\ ~is_head_method(Str(split_whitespace(first_line_of(
                  from_utf8_lossy(parse_thread.data)))[1]))) =>
            connections[parse_tx[i].fd].file.open
  /\ \A fd \in DOMAIN connections :
       connections[fd].stage = Parse =>
         \/ parse_thread.fd = fd /\ parse_thread.at \in {"running", "attached"}
         \/ Cardinality(CompletionsFor(fd)) = 1

\* the parse thread panicked on the slice of the path: the connection is in
\* Parse and no message was sent
C40_ParseThreadPanicked ==
  /\ parse_thread.at = "panicked"
  /\ parse_thread.fd \in DOMAIN connections
  /\ connections[parse_thread.fd].stage = Parse
  /\ parse_tx = <<>>

====
